---------------------------- MODULE Spec2Model ----------------------------
(***************************************************************************)
(* Model of the natural-language query system of rmonesqlchart.py:         *)
(* the lexical parsers (DateCalculator, NumberCalculator,                  *)
(* SemanticTimeParser), the refinement pipeline                            *)
(* (QueryEngine.preprocess_query), the SQL builder                         *)
(* (QueryEngine.build_sql_query), query execution and the orchestrator     *)
(* (QueryEngine.process_query).                                            *)
(*                                                                         *)
(* Representation.                                                         *)
(*  - A text (question, time reference, category or tag value) is a        *)
(*    sequence of words; the string it stands for is the words joined by   *)
(*    single spaces.  The regular expressions of the source are applied    *)
(*    word by word; the lexical tables below say, for every word of the    *)
(*    vocabulary, what each regular expression sees in it.                 *)
(*  - A date string 'YYYY-MM-DD' is the triple <<y, m, d>>.                *)
(*  - A money amount is <<millions, units>> (amount = millions * 10^6 +    *)
(*    units), so that the sentinel 999999999999 is representable.          *)
(*  - Every other string value (status, client, tag, ...) is a text too;   *)
(*    the empty string is <<>>.                                            *)
(*  - An optional value is <<>> for Python None and <<v>> for v; a range   *)
(*    (s, e) is <<s, e>>.  An absent dictionary key is a key outside the   *)
(*    DOMAIN of the function that models the dictionary.                   *)
(***************************************************************************)
EXTENDS Integers, Sequences, FiniteSets, TLC

VARIABLES
    today,          \* datetime.now() of the request, as <<y, m, d>>
    pc,             \* position of the request in process_query
    question,       \* user_question, a sequence of words
    classification, \* the classifier's Intent [function_name, arguments]
    refined,        \* result of preprocess_query [raised, function_name, arguments]
    again,          \* result of a second preprocess_query on `refined`
    built,          \* result of build_sql_query [sql, params, percentiles, queried]
    percentiles,    \* ProjectSizeCalculator.percentiles (<<>> or <<snapshot>>)
    calls,          \* what the request has invoked so far
    connections,    \* database connections opened by the request
    response,       \* the response of process_query (<<>> until it returns)
    clock,          \* datetime.now() seen by the size calculator, in hours
    calculated_at,  \* percentiles['calculated_at'] (<<>> or <<hour>>)
    last_calculated,\* ProjectSizeCalculator.last_calculated (<<>> or <<hour>>)
    threads,        \* the callers of the size calculator, each with its position
    parsed,         \* what the date parsers returned for the question
    summary         \* calculate_summary_stats: [data, stats]

vars == <<today, pc, question, classification, refined, again, built,
          percentiles, calls, connections, response,
          clock, calculated_at, last_calculated, threads, parsed, summary>>

\* what a request leaves alone outside the query engine's own fields
aside == <<clock, threads, parsed, summary>>

(***************************************************************************)
(* Generic helpers.                                                        *)
(***************************************************************************)
Put(f, k, v) == [x \in (DOMAIN f) \cup {k} |-> IF x = k THEN v ELSE f[x]]

Pop(f, k) == [x \in (DOMAIN f) \ {k} |-> f[x]]

Has(f, k) == k \in DOMAIN f

EmptyArgs == [x \in {} |-> <<>>]

Min(a, b) == IF a <= b THEN a ELSE b

\* least index i in 1..n with P(i), or 0 (re.search returns the leftmost match)
FirstIndex(n, P(_)) ==
    IF \E i \in 1..n : P(i)
    THEN CHOOSE i \in 1..n : P(i) /\ \A j \in 1..(i - 1) : ~P(j)
    ELSE 0

SeqHead(s, n) == [i \in 1..Min(n, Len(s)) |-> s[i]]

(***************************************************************************)
(* Dates: datetime +/- timedelta(days = n), strftime('%Y-%m-%d').          *)
(***************************************************************************)
DaysFromCivil(date) ==
    LET y0  == date[1]
        m   == date[2]
        d   == date[3]
        y   == IF m <= 2 THEN y0 - 1 ELSE y0
        era == y \div 400
        yoe == y - era * 400
        mp  == (m + 9) % 12
        doy == (153 * mp + 2) \div 5 + d - 1
        doe == yoe * 365 + yoe \div 4 - yoe \div 100 + doy
    IN  era * 146097 + doe - 719468

CivilFromDays(z0) ==
    LET z   == z0 + 719468
        era == z \div 146097
        doe == z - era * 146097
        yoe == (doe - doe \div 1460 + doe \div 36524 - doe \div 146096) \div 365
        y   == yoe + era * 400
        doy == doe - (365 * yoe + yoe \div 4 - yoe \div 100)
        mp  == (5 * doy + 2) \div 153
        d   == doy - (153 * mp + 2) \div 5 + 1
        m   == IF mp < 10 THEN mp + 3 ELSE mp - 9
    IN  <<IF m <= 2 THEN y + 1 ELSE y, m, d>>

AddDays(date, n) == CivilFromDays(DaysFromCivil(date) + n)

\* date1 <= date2 as the strings 'YYYY-MM-DD' compare
DateLeq(a, b) ==
    \/ a[1] < b[1]
    \/ a[1] = b[1] /\ a[2] < b[2]
    \/ a[1] = b[1] /\ a[2] = b[2] /\ a[3] <= b[3]

(***************************************************************************)
(* Money: float(number) * multiplier, kept exact in two limbs.             *)
(***************************************************************************)
Million == 1000000

Money(n, mult) ==
    CASE mult = "million"  -> <<n, 0>>
      [] mult = "billion"  -> <<n * 1000, 0>>
      [] mult = "thousand" -> <<(n * 1000) \div Million, (n * 1000) % Million>>
      [] OTHER             -> <<n \div Million, n % Million>>

ZeroMoney == <<0, 0>>

MoneyLess(a, b) == a[1] < b[1] \/ (a[1] = b[1] /\ a[2] < b[2])

\* 999999999999, the "very large number" that stands for no upper bound
MaxFeeSentinel == <<999999, 999999>>

(***************************************************************************)
(* Lexical tables: what the regular expressions and substring tests of the *)
(* source see in each word of the vocabulary.                              *)
(***************************************************************************)
\* str.lower() of a word
Lower(w) ==
    CASE w = "January"  -> "january"
      [] w = "March"    -> "march"
      [] w = "December" -> "december"
      [] w = "Q1"       -> "q1"
      [] w = "TAMU"     -> "tamu"
      [] w = "Rail"     -> "rail"
      [] w = "Transit"  -> "transit"
      [] w = "Winning"  -> "winning"
      [] w = "Mega"     -> "mega"
      [] OTHER          -> w

LowerText(t) == [i \in 1..Len(t) |-> Lower(t[i])]

\* int() of a word made of digits only, -1 for any other word
IntOf(w) ==
    CASE w = "0"    -> 0
      [] w = "3"    -> 3
      [] w = "5"    -> 5
      [] w = "6"    -> 6
      [] w = "10"   -> 10
      [] w = "50"   -> 50
      [] w = "1999" -> 1999
      [] w = "2026" -> 2026
      [] w = "2027" -> 2027
      [] OTHER      -> -1

\* the digits a word ends with (\d+ matched at the end of the word), -1 if none
TrailingInt(w) == IF w = "q1" THEN 1 ELSE IntOf(w)

\* the d of a word that ends with q<d>, -1 if none
QuarterDigit(w) == IF w = "q1" THEN 1 ELSE -1

\* a word that starts with four digits (\d{4}): their value, -1 if none
FourDigits(w) == IF IntOf(w) >= 1000 /\ IntOf(w) <= 9999 THEN IntOf(w) ELSE -1

\* a word that is a year token \b20\d{2}\b
IsYearToken(w) == IntOf(w) >= 2000 /\ IntOf(w) <= 2099

\* k is a substring of the word w
Contains(w, k) ==
    \/ w = k
    \/ <<w, k>> \in {<<"tags", "tag">>, <<"recently", "recent">>,
                     <<"months", "month">>, <<"weeks", "week">>}

\* the word w starts with k
StartsWith(w, k) ==
    \/ w = k
    \/ <<w, k>> \in {<<"months", "month">>, <<"weeks", "week">>,
                     <<"recently", "recent">>}

\* the word w ends with k (none of the vocabulary does, unless it is k)
EndsWith(w, k) == w = k

EndsWithAny(w, ks) == \E k \in ks : EndsWith(w, k)

\* k (one word) is a substring of the text
TextContains(t, k) == \E i \in 1..Len(t) : Contains(t[i], k)

TextContainsAny(t, ks) == \E k \in ks : TextContains(t, k)

\* "k1 k2" (two words, one space) is a substring of the text
TextContainsPair(t, k1, k2) ==
    \E i \in 1..(Len(t) - 1) : EndsWith(t[i], k1) /\ StartsWith(t[i + 1], k2)

\* month_map.get(word), 0 for None
month_map(w) ==
    CASE w = "january"  -> 1
      [] w = "march"    -> 3
      [] w = "december" -> 12
      [] OTHER          -> 0

\* the alternative of (million|billion|thousand|m|b|k) that matches at the
\* start of the word, "" if none
FeeUnitAt(w) ==
    CASE w = "million"                 -> "million"
      [] w \in {"months", "march", "medium"} -> "m"
      [] w = "between"                 -> "b"
      [] OTHER                         -> ""

\* the alternative of (month|months|day|days|year|years|week|weeks) that
\* matches at the start of the word, "" if none
DateUnitAt(w) ==
    CASE StartsWith(w, "month") -> "month"
      [] StartsWith(w, "year")  -> "year"
      [] StartsWith(w, "week")  -> "week"
      [] StartsWith(w, "day")   -> "day"
      [] OTHER                  -> ""

\* the same with quarter|quarters (SemanticTimeParser)
TimeUnitAt(w) == IF StartsWith(w, "quarter") THEN "quarter" ELSE DateUnitAt(w)

(***************************************************************************)
(* DateCalculator.  A result that may be None is a sequence: <<>> is None. *)
(***************************************************************************)
DateCalculator_unit_to_days(quantity, unit) ==
    CASE unit = "day"   -> quantity
      [] unit = "week"  -> quantity * 7
      [] unit = "month" -> quantity * 30
      [] unit = "year"  -> quantity * 365
      [] OTHER          -> 0

\* "(?:<keywords>)\s+(\d+)\s+(<unit>)" matches at word i
RelativeAt(t, i, keywords) ==
    /\ EndsWithAny(t[i], keywords)
    /\ IntOf(t[i + 1]) >= 0
    /\ DateUnitAt(t[i + 2]) # ""

\* The second pattern of each list ("in the last ...") and the combined
\* pattern 3 can match only where the first pattern matches, which returns
\* first: they never decide the result.
parse_relative_date(text, now) ==
    LET t      == LowerText(text)
        past   == FirstIndex(Len(t) - 2,
                      LAMBDA i : RelativeAt(t, i, {"last", "past", "previous"}))
        future == FirstIndex(Len(t) - 2,
                      LAMBDA i : RelativeAt(t, i, {"next", "future", "upcoming", "coming"}))
        days(i) == DateCalculator_unit_to_days(IntOf(t[i + 1]), DateUnitAt(t[i + 2]))
    IN  IF past # 0 THEN <<AddDays(now, 0 - days(past)), now>>
        ELSE IF future # 0 THEN <<now, AddDays(now, days(future))>>
        ELSE <<>>

\* "between\s+(\w+)\s+and\s+(\w+)\s+(\d{4})" matches at word i
MonthRangeAt(t, i) ==
    /\ EndsWith(t[i], "between")
    /\ t[i + 2] = "and"
    /\ FourDigits(t[i + 4]) >= 0

\* day of (datetime(year, month + 1, 1) - timedelta(days = 1))
LastDayOfMonth(year, month) == AddDays(<<year, month + 1, 1>>, -1)[3]

parse_month_range(text) ==
    LET t == LowerText(text)
        i == FirstIndex(Len(t) - 4, LAMBDA j : MonthRangeAt(t, j))
    IN  IF i = 0 THEN <<>>
        ELSE LET start_month == month_map(t[i + 1])
                 end_month   == month_map(t[i + 3])
                 year        == FourDigits(t[i + 4])
             IN  IF start_month # 0 /\ end_month # 0
                 THEN << <<year, start_month, 1>>,
                         IF end_month = 12
                         THEN <<year, 12, 31>>
                         ELSE <<year, end_month, LastDayOfMonth(year, end_month)>> >>
                 ELSE <<>>

\* "q(\d)\s+(\d{4})" matches at word i
QuarterAt(t, i) == QuarterDigit(t[i]) >= 0 /\ FourDigits(t[i + 1]) >= 0

\* "<name>\s+quarter\s+(\d{4})" matches at word i
NamedQuarterAt(t, i, name) ==
    EndsWith(t[i], name) /\ t[i + 1] = "quarter" /\ FourDigits(t[i + 2]) >= 0

\* the quarter_names dictionary, in its order
quarter_names ==
    << <<"first", 1>>, <<"1st", 1>>, <<"second", 2>>, <<"2nd", 2>>,
       <<"third", 3>>, <<"3rd", 3>>, <<"fourth", 4>>, <<"4th", 4>> >>

\* <<year, quarter>> or <<>>
parse_specific_quarter(text) ==
    LET t == LowerText(text)
        i == FirstIndex(Len(t) - 1, LAMBDA j : QuarterAt(t, j))
        named(k) == FirstIndex(Len(t) - 2,
                        LAMBDA j : NamedQuarterAt(t, j, quarter_names[k][1]))
        k == FirstIndex(Len(quarter_names), LAMBDA n : named(n) # 0)
    IN  IF i # 0 /\ QuarterDigit(t[i]) >= 1 /\ QuarterDigit(t[i]) <= 4
        THEN <<FourDigits(t[i + 1]), QuarterDigit(t[i])>>
        ELSE IF k # 0
        THEN <<FourDigits(t[named(k) + 2]), quarter_names[k][2]>>
        ELSE <<>>

\* re.findall(r'\b(20\d{2})\b', text): the year tokens, in order
RECURSIVE YearTokens(_)
YearTokens(t) ==
    IF t = <<>> THEN <<>>
    ELSE (IF IsYearToken(t[1]) THEN <<IntOf(t[1])>> ELSE <<>>) \o YearTokens(Tail(t))

\* the list of years when there are two or more, <<>> for None
parse_multiple_years(text) ==
    LET years == YearTokens(text)
    IN  IF Len(years) > 1 THEN years ELSE <<>>

\* <<year>> or <<>>
parse_specific_year(text) ==
    LET t == LowerText(text)
        i == FirstIndex(Len(t) - 1,
                 LAMBDA j : /\ EndsWithAny(t[j], {"in", "during", "for"})
                            /\ IsYearToken(t[j + 1]))
        years == YearTokens(text)
    IN  IF i # 0 THEN <<IntOf(t[i + 1])>>
        ELSE IF years # <<>> THEN <<years[1]>>
        ELSE <<>>

\* One pass of _parse_multiple_items over the words: " and " is replaced by
\* "," from left to right, so an "and" is a separator when it has a word on
\* each side and the word before it was not itself taken as a separator.
RECURSIVE SplitItems(_, _, _, _)
SplitItems(t, i, current, prevSep) ==
    IF i > Len(t)
    THEN IF current = <<>> THEN <<>> ELSE <<current>>
    ELSE IF t[i] = "and" /\ i > 1 /\ i < Len(t) /\ ~prevSep
    THEN (IF current = <<>> THEN <<>> ELSE <<current>>)
             \o SplitItems(t, i + 1, <<>>, TRUE)
    ELSE SplitItems(t, i + 1, Append(current, t[i]), FALSE)

\* unique_items: the first occurrence of each item, compared in lower case
RECURSIVE UniqueItems(_, _)
UniqueItems(items, seen) ==
    IF items = <<>> THEN <<>>
    ELSE IF LowerText(items[1]) \in seen
    THEN UniqueItems(Tail(items), seen)
    ELSE <<items[1]>> \o UniqueItems(Tail(items), seen \cup {LowerText(items[1])})

MaxItems == 5

parse_multiple_items(text) ==
    SeqHead(UniqueItems(SplitItems(text, 1, <<>>, FALSE), {}), MaxItems)

(***************************************************************************)
(* NumberCalculator.                                                       *)
(***************************************************************************)
get_multiplier(unit) ==
    CASE unit \in {"million", "m"}  -> "million"
      [] unit \in {"billion", "b"}  -> "billion"
      [] unit \in {"thousand", "k"} -> "thousand"
      [] OTHER                      -> "one"

\* "between\s+(\d+)\s+and\s+(\d+)\s+(million|billion|thousand|m|b|k)" at word i
FeeBetweenAt(t, i) ==
    /\ EndsWith(t[i], "between")
    /\ IntOf(t[i + 1]) >= 0
    /\ t[i + 2] = "and"
    /\ IntOf(t[i + 3]) >= 0
    /\ FeeUnitAt(t[i + 4]) # ""

\* "(\d+)\s+to\s+(\d+)\s+(million|billion|thousand|m|b|k)" at word i
FeeToAt(t, i) ==
    /\ TrailingInt(t[i]) >= 0
    /\ t[i + 1] = "to"
    /\ IntOf(t[i + 2]) >= 0
    /\ FeeUnitAt(t[i + 3]) # ""

\* "(?:<keywords>)\s+(\d+)\s*(million|billion|thousand|m|b|k)?" at word i
FeeBoundAt(t, i, keywords) == EndsWithAny(t[i], keywords) /\ IntOf(t[i + 1]) >= 0

\* the optional unit after the number at word i + 1: the next word's, if any
FeeBoundUnit(t, i) == IF i + 2 <= Len(t) THEN FeeUnitAt(t[i + 2]) ELSE ""

\* <<min_fee, max_fee>> or <<>>; max_fee is <<>> for None, else <<amount>>
parse_fee_range(text) ==
    LET t       == LowerText(text)
        between == FirstIndex(Len(t) - 4, LAMBDA i : FeeBetweenAt(t, i))
        to      == FirstIndex(Len(t) - 3, LAMBDA i : FeeToAt(t, i))
        over    == FirstIndex(Len(t) - 1, LAMBDA i : FeeBoundAt(t, i, {"over", "above"}))
        under   == FirstIndex(Len(t) - 1, LAMBDA i : FeeBoundAt(t, i, {"under", "below"}))
    IN  IF between # 0
        THEN LET m == get_multiplier(FeeUnitAt(t[between + 4]))
             IN  <<Money(IntOf(t[between + 1]), m), <<Money(IntOf(t[between + 3]), m)>> >>
        ELSE IF to # 0
        THEN LET m == get_multiplier(FeeUnitAt(t[to + 3]))
             IN  <<Money(TrailingInt(t[to]), m), <<Money(IntOf(t[to + 2]), m)>> >>
        ELSE IF over # 0
        THEN <<Money(IntOf(t[over + 1]), get_multiplier(FeeBoundUnit(t, over))), <<>> >>
        ELSE IF under # 0
        THEN <<ZeroMoney,
               <<Money(IntOf(t[under + 1]), get_multiplier(FeeBoundUnit(t, under)))>> >>
        ELSE <<>>

\* "(?:top|first|largest|biggest|smallest)\s+(\d+)": <<limit>> or <<>>
parse_limit(text) ==
    LET t == LowerText(text)
        i == FirstIndex(Len(t) - 1,
                 LAMBDA j : /\ EndsWithAny(t[j], {"top", "first", "largest", "biggest", "smallest"})
                            /\ IntOf(t[j + 1]) >= 0)
    IN  IF i = 0 THEN <<>> ELSE <<IntOf(t[i + 1])>>

(***************************************************************************)
(* SemanticTimeParser.  self.today is datetime.now() at construction; the  *)
(* parser is constructed by the preprocess_query call that uses it.        *)
(***************************************************************************)
\* word_to_number: a whole word that is a number name becomes its digits
convert_written_numbers(t) ==
    [i \in 1..Len(t) |-> IF t[i] = "ten" THEN "10" ELSE t[i]]

SemanticTimeParser_unit_to_days(quantity, unit) ==
    CASE unit = "day"     -> quantity
      [] unit = "week"    -> quantity * 7
      [] unit = "month"   -> quantity * 30
      [] unit = "quarter" -> quantity * 90
      [] unit = "year"    -> quantity * 365
      [] OTHER            -> 0

FutureWords == {"next", "coming", "upcoming", "future"}

PastWords == {"last", "past", "previous", "recent"}

\* "(\d+)\s*(month|months|day|...|quarter|quarters)" at word i
NumericTimeAt(t, i) == TrailingInt(t[i]) >= 0 /\ TimeUnitAt(t[i + 1]) # ""

extract_numeric_timeframe(text, now) ==
    LET t    == convert_written_numbers(text)
        i    == FirstIndex(Len(t) - 1, LAMBDA j : NumericTimeAt(t, j))
        days == SemanticTimeParser_unit_to_days(TrailingInt(t[i]), TimeUnitAt(t[i + 1]))
        is_future == TextContainsAny(t, FutureWords)
        is_past   == TextContainsAny(t, PastWords)
    IN  IF i = 0 THEN <<>>
        ELSE IF is_future THEN <<now, AddDays(now, days)>>
        ELSE IF is_past THEN <<AddDays(now, 0 - days), now>>
        ELSE <<now, AddDays(now, days)>>

\* future_defaults / past_defaults, in dictionary order
default_days == << <<"quarter", 90>>, <<"year", 365>>, <<"months", 180>> >>

DefaultDays(text) ==
    LET k == FirstIndex(Len(default_days),
                 LAMBDA n : TextContains(text, default_days[n][1]))
    IN  IF k # 0 THEN default_days[k][2] ELSE 180

parse_future_reference(text, now) ==
    LET result == extract_numeric_timeframe(text, now)
    IN  IF result # <<>> THEN result ELSE <<now, AddDays(now, DefaultDays(text))>>

parse_past_reference(text, now) ==
    LET result == extract_numeric_timeframe(text, now)
    IN  IF result # <<>> THEN result ELSE <<AddDays(now, 0 - DefaultDays(text)), now>>

\* vague_mappings, in dictionary order: <<first word, second word or "", start, end>>
vague_mappings ==
    << <<"soon", "", 0, 90>>,          <<"near", "future", 0, 180>>,
       <<"short", "term", 0, 180>>,    <<"medium", "term", 180, 730>>,
       <<"long", "term", 730, 1825>>,  <<"immediately", "", 0, 30>>,
       <<"recently", "", -90, 0>>,     <<"shortly", "", 0, 60>>,
       <<"little", "while", 0, 90>> >>

VagueIn(t, n) ==
    IF vague_mappings[n][2] = ""
    THEN TextContains(t, vague_mappings[n][1])
    ELSE TextContainsPair(t, vague_mappings[n][1], vague_mappings[n][2])

get_current_quarter_dates(now) ==
    LET month == now[2]
        year  == now[1]
    IN  IF month <= 3 THEN << <<year, 1, 1>>, <<year, 3, 31>> >>
        ELSE IF month <= 6 THEN << <<year, 4, 1>>, <<year, 6, 30>> >>
        ELSE IF month <= 9 THEN << <<year, 7, 1>>, <<year, 9, 30>> >>
        ELSE << <<year, 10, 1>>, <<year, 12, 31>> >>

get_quarter_dates(year, quarter) ==
    CASE quarter = 1 -> << <<year, 1, 1>>, <<year, 3, 31>> >>
      [] quarter = 2 -> << <<year, 4, 1>>, <<year, 6, 30>> >>
      [] quarter = 3 -> << <<year, 7, 1>>, <<year, 9, 30>> >>
      [] quarter = 4 -> << <<year, 10, 1>>, <<year, 12, 31>> >>
      [] OTHER       -> << <<year, 1, 1>>, <<year, 12, 31>> >>

\* SemanticTimeParser._parse_specific_quarter: any digit after q is taken,
\* and only first/second/third/fourth are named
SemanticTimeParser_parse_specific_quarter(t) ==
    LET i == FirstIndex(Len(t) - 1, LAMBDA j : QuarterAt(t, j))
        names == << <<"first", 1>>, <<"second", 2>>, <<"third", 3>>, <<"fourth", 4>> >>
        named(k) == FirstIndex(Len(t) - 2, LAMBDA j : NamedQuarterAt(t, j, names[k][1]))
        k == FirstIndex(Len(names), LAMBDA n : named(n) # 0)
    IN  IF i # 0 THEN get_quarter_dates(FourDigits(t[i + 1]), QuarterDigit(t[i]))
        ELSE IF k # 0 THEN get_quarter_dates(FourDigits(t[named(k) + 2]), names[k][2])
        ELSE <<>>

SemanticTimeParser_parse_specific_year(t) ==
    LET years == YearTokens(t)
    IN  IF years = <<>> THEN <<>>
        ELSE << <<years[1], 1, 1>>, <<years[1], 12, 31>> >>

\* SemanticTimeParser.parse: <<start_date, end_date>> or <<>> for None
SemanticTimeParser_parse(time_reference, now) ==
    LET time_ref == LowerText(time_reference)
        vague    == FirstIndex(Len(vague_mappings), LAMBDA n : VagueIn(time_ref, n))
        quarter  == SemanticTimeParser_parse_specific_quarter(time_ref)
        year     == SemanticTimeParser_parse_specific_year(time_ref)
        months   == parse_month_range(time_ref)
    IN  IF time_reference = <<>> THEN <<>>
        ELSE IF TextContainsAny(time_ref, FutureWords)
        THEN parse_future_reference(time_ref, now)
        ELSE IF TextContainsAny(time_ref, PastWords)
        THEN parse_past_reference(time_ref, now)
        ELSE IF vague # 0
        THEN <<AddDays(now, vague_mappings[vague][3]), AddDays(now, vague_mappings[vague][4])>>
        ELSE IF TextContainsPair(time_ref, "this", "quarter")
        THEN get_current_quarter_dates(now)
        ELSE IF TextContainsPair(time_ref, "this", "year")
        THEN << <<now[1], 1, 1>>, <<now[1], 12, 31>> >>
        ELSE IF quarter # <<>> THEN quarter
        ELSE IF year # <<>> THEN year
        ELSE IF months # <<>> THEN months
        ELSE extract_numeric_timeframe(time_ref, now)

(***************************************************************************)
(* QueryEngine.query_templates.  The SQL text of a template is the         *)
(* sequence of its pieces: a placeholder "%s", a slot "{name}", or the     *)
(* fixed text between them, cut at white space into pieces of one line.    *)
(***************************************************************************)
CatalogKeys ==
    {"get_projects_by_year", "get_projects_by_date_range",
     "get_projects_by_quarter", "get_projects_by_years",
     "get_largest_projects", "get_smallest_projects",
     "get_largest_in_region", "get_largest_by_category",
     "get_projects_by_category", "get_projects_by_project_type",
     "get_projects_by_multiple_categories", "get_largest_by_tags",
     "get_projects_by_tags", "get_top_tags", "get_top_tags_by_date",
     "get_projects_by_shared_tags", "get_projects_by_multiple_tags",
     "get_projects_by_company", "compare_companies", "compare_opco_revenue",
     "get_projects_by_client", "get_projects_by_client_and_fee_range",
     "get_client_win_rates", "get_projects_by_status",
     "get_status_breakdown", "get_overoptimistic_losses",
     "get_top_predicted_wins", "get_project_win_rate",
     "get_projects_by_win_range", "predict_win_probability",
     "get_projects_by_state", "get_projects_by_fee_range",
     "get_projects_by_size", "get_size_distribution", "get_similar_projects",
     "compare_project_with_similar", "get_related_projects",
     "get_projects_by_status_and_win_rate", "analyze_pursuit_duration",
     "get_all_projects", "get_projects_sorted",
     "group_projects_by_type_size", "get_projects_by_combined_filters",
     "get_projects_by_contact", "get_project_by_id",
     "get_revenue_by_category", "get_weighted_revenue_projection",
     "compare_years"}

query_templates(function_name) ==
    CASE function_name = "get_projects_by_year" ->
           [params |-> <<"year">>,
            param_types |-> <<"int">>,
            sql |-> <<"SELECT * FROM \"Sample\" WHERE EXTRACT(YEAR FROM \"Start Date\") =",
                      "%s",
                      "AND \"Start Date\" > '2000-01-01' ORDER BY CAST(NULLIF(\"Fee\", '') AS NUMERIC) DESC",
                      "NULLS LAST">>]
      [] function_name = "get_projects_by_date_range" ->
           [params |-> <<"start_date", "end_date">>,
            param_types |-> <<"str", "str">>,
            sql |-> <<"SELECT * FROM \"Sample\" WHERE \"Start Date\" >=",
                      "%s",
                      "::date AND \"Start Date\" <=",
                      "%s",
                      "::date AND \"Start Date\" > '2000-01-01' ORDER BY CAST(NULLIF(\"Fee\", '') AS NUMERIC)",
                      "DESC NULLS LAST">>]
      [] function_name = "get_projects_by_quarter" ->
           [params |-> <<"year", "quarter">>,
            param_types |-> <<"int", "int">>,
            sql |-> <<"SELECT * FROM \"Sample\" WHERE EXTRACT(YEAR FROM \"Start Date\") =",
                      "%s",
                      "AND EXTRACT(QUARTER FROM \"Start Date\") =",
                      "%s",
                      "AND \"Start Date\" > '2000-01-01' ORDER BY CAST(NULLIF(\"Fee\", '') AS NUMERIC) DESC",
                      "NULLS LAST">>]
      [] function_name = "get_projects_by_years" ->
           [params |-> <<"years">>,
            param_types |-> <<"array">>,
            sql |-> <<"SELECT * FROM \"Sample\" WHERE EXTRACT(YEAR FROM \"Start Date\") = ANY(",
                      "%s",
                      ") AND \"Start Date\" > '2000-01-01' ORDER BY \"Start Date\", CAST(NULLIF(\"Fee\", '') AS",
                      "NUMERIC) DESC NULLS LAST">>]
      [] function_name = "get_largest_projects" ->
           [params |-> <<>>,
            param_types |-> <<>>,
            sql |-> <<"SELECT * FROM \"Sample\" WHERE \"Fee\" IS NOT NULL AND \"Fee\" != ''",
                      "{date_filter}",
                      "ORDER BY CAST(\"Fee\" AS NUMERIC) DESC",
                      "{limit_clause}">>]
      [] function_name = "get_smallest_projects" ->
           [params |-> <<>>,
            param_types |-> <<>>,
            sql |-> <<"SELECT * FROM \"Sample\" WHERE \"Fee\" IS NOT NULL AND \"Fee\" != '' AND CAST(\"Fee\" AS",
                      "NUMERIC) > 0",
                      "{date_filter}",
                      "ORDER BY CAST(\"Fee\" AS NUMERIC) ASC",
                      "{limit_clause}">>]
      [] function_name = "get_largest_in_region" ->
           [params |-> <<"state_code">>,
            param_types |-> <<"str">>,
            sql |-> <<"SELECT * FROM \"Sample\" WHERE \"State Lookup\" =",
                      "%s",
                      "::text AND \"Fee\" IS NOT NULL AND \"Fee\" != '' ORDER BY CAST(\"Fee\" AS NUMERIC) DESC",
                      "{limit_clause}">>]
      [] function_name = "get_largest_by_category" ->
           [params |-> <<"category">>,
            param_types |-> <<"str">>,
            sql |-> <<"SELECT * FROM \"Sample\" WHERE \"Request Category\" ILIKE",
                      "%s",
                      "AND \"Fee\" IS NOT NULL AND \"Fee\" != '' ORDER BY CAST(\"Fee\" AS NUMERIC) DESC",
                      "{limit_clause}">>]
      [] function_name = "get_projects_by_category" ->
           [params |-> <<"category">>,
            param_types |-> <<"str">>,
            sql |-> <<"SELECT * FROM \"Sample\" WHERE \"Request Category\" ILIKE",
                      "%s",
                      "ORDER BY CAST(NULLIF(\"Fee\", '') AS NUMERIC) DESC NULLS LAST">>]
      [] function_name = "get_projects_by_project_type" ->
           [params |-> <<"project_type">>,
            param_types |-> <<"str">>,
            sql |-> <<"SELECT * FROM \"Sample\" WHERE \"Project Type\" ILIKE",
                      "%s",
                      "ORDER BY CAST(NULLIF(\"Fee\", '') AS NUMERIC) DESC NULLS LAST">>]
      [] function_name = "get_projects_by_multiple_categories" ->
           [params |-> <<"categories">>,
            param_types |-> <<"array">>,
            sql |-> <<"SELECT * FROM \"Sample\" WHERE \"Request Category\" ILIKE ANY(",
                      "%s",
                      ") ORDER BY CAST(NULLIF(\"Fee\", '') AS NUMERIC) DESC NULLS LAST">>]
      [] function_name = "get_largest_by_tags" ->
           [params |-> <<"tag">>,
            param_types |-> <<"str">>,
            sql |-> <<"SELECT * FROM \"Sample\" WHERE \"Tags\" ILIKE",
                      "%s",
                      "AND \"Fee\" IS NOT NULL AND \"Fee\" != '' ORDER BY CAST(\"Fee\" AS NUMERIC) DESC",
                      "{limit_clause}">>]
      [] function_name = "get_projects_by_tags" ->
           [params |-> <<"tag">>,
            param_types |-> <<"str">>,
            sql |-> <<"SELECT * FROM \"Sample\" WHERE \"Tags\" ILIKE",
                      "%s",
                      "ORDER BY CAST(NULLIF(\"Fee\", '') AS NUMERIC) DESC NULLS LAST">>]
      [] function_name = "get_top_tags" ->
           [params |-> <<>>,
            param_types |-> <<>>,
            sql |-> <<"SELECT TRIM(UNNEST(string_to_array(\"Tags\", ','))) as tag, COUNT(*) as project_count,",
                      "SUM(CAST(NULLIF(\"Fee\", '') AS NUMERIC)) as total_value FROM \"Sample\" WHERE \"Tags\" IS",
                      "NOT NULL AND \"Tags\" != '' GROUP BY tag HAVING TRIM(UNNEST(string_to_array(\"Tags\",",
                      "','))) != '' ORDER BY total_value DESC NULLS LAST",
                      "{limit_clause}">>]
      [] function_name = "get_top_tags_by_date" ->
           [params |-> <<"start_year", "end_year">>,
            param_types |-> <<"int", "int">>,
            sql |-> <<"SELECT TRIM(UNNEST(string_to_array(\"Tags\", ','))) as tag, COUNT(*) as project_count,",
                      "SUM(CAST(NULLIF(\"Fee\", '') AS NUMERIC)) as total_value FROM \"Sample\" WHERE \"Tags\" IS",
                      "NOT NULL AND \"Tags\" != '' AND EXTRACT(YEAR FROM \"Start Date\") >=",
                      "%s",
                      "AND EXTRACT(YEAR FROM \"Start Date\") <=",
                      "%s",
                      "GROUP BY tag HAVING TRIM(UNNEST(string_to_array(\"Tags\", ','))) != '' ORDER BY",
                      "project_count DESC, total_value DESC NULLS LAST",
                      "{limit_clause}">>]
      [] function_name = "get_projects_by_shared_tags" ->
           [params |-> <<"reference_client", "reference_project">>,
            param_types |-> <<"str", "str">>,
            sql |-> <<"WITH reference_tags AS ( SELECT UNNEST(string_to_array(\"Tags\", ',')) as tag FROM",
                      "\"Sample\" WHERE \"Client\" ILIKE",
                      "%s",
                      "OR \"Project Name\"::text ILIKE",
                      "%s",
                      "LIMIT 1 ) SELECT DISTINCT s.* FROM \"Sample\" s, reference_tags rt WHERE s.\"Tags\"",
                      "ILIKE '%%' || rt.tag || '%%' ORDER BY CAST(NULLIF(s.\"Fee\", '') AS NUMERIC) DESC",
                      "NULLS LAST",
                      "{limit_clause}">>]
      [] function_name = "get_projects_by_multiple_tags" ->
           [params |-> <<>>,
            param_types |-> <<>>,
            sql |-> <<"SELECT * FROM \"Sample\" WHERE \"Tags\" IS NOT NULL AND \"Tags\" != ''",
                      "{tag_conditions}",
                      "ORDER BY CAST(NULLIF(\"Fee\", '') AS NUMERIC) DESC NULLS LAST",
                      "{limit_clause}">>]
      [] function_name = "get_projects_by_company" ->
           [params |-> <<"company">>,
            param_types |-> <<"str">>,
            sql |-> <<"SELECT * FROM \"Sample\" WHERE \"Company\" ILIKE",
                      "%s",
                      "ORDER BY CAST(NULLIF(\"Fee\", '') AS NUMERIC) DESC NULLS LAST">>]
      [] function_name = "compare_companies" ->
           [params |-> <<>>,
            param_types |-> <<>>,
            sql |-> <<"SELECT \"Company\", COUNT(*) as project_count, SUM(CAST(NULLIF(\"Fee\", '') AS NUMERIC))",
                      "as total_revenue, AVG(CAST(NULLIF(\"Fee\", '') AS NUMERIC)) as avg_project_size,",
                      "AVG(CAST(NULLIF(\"Win %\", '') AS NUMERIC)) as avg_win_rate FROM \"Sample\" WHERE",
                      "\"Company\" IS NOT NULL AND \"Company\" != '' GROUP BY \"Company\" ORDER BY total_revenue",
                      "DESC NULLS LAST">>]
      [] function_name = "compare_opco_revenue" ->
           [params |-> <<"companies">>,
            param_types |-> <<"array">>,
            sql |-> <<"SELECT \"Company\", COUNT(*) as project_count, SUM(CAST(NULLIF(\"Fee\", '') AS NUMERIC))",
                      "as total_revenue, SUM(CAST(NULLIF(\"Fee\", '') AS NUMERIC) * CAST(NULLIF(\"Win %%\", '')",
                      "AS NUMERIC) / 100) as predicted_revenue, AVG(CAST(NULLIF(\"Win %%\", '') AS NUMERIC))",
                      "as avg_win_rate FROM \"Sample\" WHERE (\"Company\" ILIKE ANY(",
                      "%s",
                      ")) AND \"Status\" NOT IN ('Won', 'Lost') GROUP BY \"Company\" ORDER BY predicted_revenue",
                      "DESC NULLS LAST">>]
      [] function_name = "get_projects_by_client" ->
           [params |-> <<"client">>,
            param_types |-> <<"str">>,
            sql |-> <<"SELECT * FROM \"Sample\" WHERE \"Client\" ILIKE",
                      "%s",
                      "ORDER BY CAST(NULLIF(\"Fee\", '') AS NUMERIC) DESC NULLS LAST">>]
      [] function_name = "get_projects_by_client_and_fee_range" ->
           [params |-> <<"client", "min_fee", "max_fee">>,
            param_types |-> <<"str", "float", "float">>,
            sql |-> <<"SELECT * FROM \"Sample\" WHERE \"Client\" ILIKE",
                      "%s",
                      "AND CAST(NULLIF(\"Fee\", '') AS NUMERIC) >=",
                      "%s",
                      "AND CAST(NULLIF(\"Fee\", '') AS NUMERIC) <=",
                      "%s",
                      "ORDER BY CAST(NULLIF(\"Fee\", '') AS NUMERIC) DESC">>]
      [] function_name = "get_client_win_rates" ->
           [params |-> <<"client">>,
            param_types |-> <<"str">>,
            sql |-> <<"SELECT \"Client\", COUNT(*) as project_count, AVG(CAST(NULLIF(\"Win %\", '') AS",
                      "NUMERIC)) as avg_win_rate, SUM(CAST(NULLIF(\"Fee\", '') AS NUMERIC)) as total_value",
                      "FROM \"Sample\" WHERE \"Client\" ILIKE",
                      "%s",
                      "AND \"Win %\" IS NOT NULL AND \"Win %\" != '' GROUP BY \"Client\" ORDER BY avg_win_rate",
                      "DESC">>]
      [] function_name = "get_projects_by_status" ->
           [params |-> <<"status">>,
            param_types |-> <<"str">>,
            sql |-> <<"SELECT * FROM \"Sample\" WHERE \"Status\" ILIKE",
                      "%s",
                      "ORDER BY CAST(NULLIF(\"Fee\", '') AS NUMERIC) DESC NULLS LAST">>]
      [] function_name = "get_status_breakdown" ->
           [params |-> <<>>,
            param_types |-> <<>>,
            sql |-> <<"SELECT \"Status\", COUNT(*) as project_count, SUM(CAST(NULLIF(\"Fee\", '') AS NUMERIC))",
                      "as total_value, AVG(CAST(NULLIF(\"Win %\", '') AS NUMERIC)) as avg_win_rate FROM",
                      "\"Sample\" GROUP BY \"Status\" ORDER BY total_value DESC NULLS LAST">>]
      [] function_name = "get_overoptimistic_losses" ->
           [params |-> <<>>,
            param_types |-> <<>>,
            sql |-> <<"SELECT * FROM \"Sample\" WHERE \"Status\" ~* 'lost' AND CAST(NULLIF(\"Win %\", '') AS",
                      "NUMERIC) > 70 ORDER BY CAST(NULLIF(\"Win %\", '') AS NUMERIC) DESC">>]
      [] function_name = "get_top_predicted_wins" ->
           [params |-> <<"limit">>,
            param_types |-> <<"int">>,
            sql |-> <<"SELECT * FROM \"Sample\" WHERE \"Status\" NOT IN ('Won', 'Lost') AND \"Win %%\" IS NOT",
                      "NULL AND \"Win %%\" != '' AND CAST(NULLIF(\"Win %%\", '') AS NUMERIC) > 50 AND \"Start",
                      "Date\" >= CURRENT_DATE AND \"Start Date\" <= CURRENT_DATE + INTERVAL '6 months' ORDER",
                      "BY CAST(NULLIF(\"Win %%\", '') AS NUMERIC) DESC, CAST(NULLIF(\"Fee\", '') AS NUMERIC)",
                      "DESC LIMIT",
                      "%s">>]
      [] function_name = "get_project_win_rate" ->
           [params |-> <<"project_name">>,
            param_types |-> <<"str">>,
            sql |-> <<"SELECT \"Project Name\", \"Win %\", \"Status\", \"Fee\", \"Request Category\", \"Company\",",
                      "\"Point Of Contact\", \"Tags\" FROM \"Sample\" WHERE \"Project Name\"::text ILIKE",
                      "%s">>]
      [] function_name = "get_projects_by_win_range" ->
           [params |-> <<"min_win", "max_win">>,
            param_types |-> <<"int", "int">>,
            sql |-> <<"SELECT * FROM \"Sample\" WHERE CAST(NULLIF(\"Win %%\", '') AS NUMERIC) >=",
                      "%s",
                      "AND CAST(NULLIF(\"Win %%\", '') AS NUMERIC) <=",
                      "%s",
                      "ORDER BY CAST(NULLIF(\"Win %%\", '') AS NUMERIC) DESC">>]
      [] function_name = "predict_win_probability" ->
           [params |-> <<"project_name">>,
            param_types |-> <<"str">>,
            sql |-> <<"SELECT p.\"Project Name\", CAST(NULLIF(p.\"Win %\", '') AS NUMERIC) as \"Win_Percentage\",",
                      "p.\"Status\", CAST(NULLIF(p.\"Fee\", '') AS NUMERIC) as \"Fee\", p.\"Request Category\",",
                      "p.\"Company\", p.\"Point Of Contact\", p.\"Tags\", (SELECT COALESCE(AVG(CAST(NULLIF(s.\"Win",
                      "%\", '') AS NUMERIC)), 0) FROM \"Sample\" s WHERE s.\"Request Category\" = p.\"Request",
                      "Category\" AND s.\"Company\" = p.\"Company\" AND s.\"Project Name\" != p.\"Project Name\" AND",
                      "s.\"Win %\" IS NOT NULL AND s.\"Win %\" != '') as similar_avg_win_rate, (SELECT COUNT(*)",
                      "FROM \"Sample\" s WHERE s.\"Request Category\" = p.\"Request Category\" AND s.\"Company\" =",
                      "p.\"Company\" AND s.\"Project Name\" != p.\"Project Name\" AND s.\"Win %\" IS NOT NULL AND",
                      "s.\"Win %\" != '') as similar_projects_count, CASE WHEN CAST(NULLIF(p.\"Win %\", '') AS",
                      "NUMERIC) >= 70 THEN 'High probability - Strong likelihood of winning' WHEN",
                      "CAST(NULLIF(p.\"Win %\", '') AS NUMERIC) >= 50 THEN 'Medium-High probability - Good",
                      "chance' WHEN CAST(NULLIF(p.\"Win %\", '') AS NUMERIC) >= 30 THEN 'Medium probability -",
                      "Competitive situation' WHEN CAST(NULLIF(p.\"Win %\", '') AS NUMERIC) >= 10 THEN",
                      "'Low-Medium probability - Challenging' ELSE 'Low probability - Consider strategic",
                      "approach' END as prediction, CASE WHEN p.\"Status\" ~* 'won' THEN 'Project already",
                      "won!' WHEN p.\"Status\" ~* 'lost' THEN 'Project was not won' WHEN p.\"Status\" ~*",
                      "'submitted' THEN 'Proposal submitted - awaiting decision' WHEN p.\"Status\" ~* 'lead'",
                      "THEN 'Early stage - continue nurturing' ELSE 'Status: ' || p.\"Status\" END as",
                      "status_insight FROM \"Sample\" p WHERE p.\"Project Name\"::text ILIKE",
                      "%s",
                      "LIMIT 1">>]
      [] function_name = "get_projects_by_state" ->
           [params |-> <<"state_code">>,
            param_types |-> <<"str">>,
            sql |-> <<"SELECT * FROM \"Sample\" WHERE \"State Lookup\" =",
                      "%s",
                      "ORDER BY CAST(NULLIF(\"Fee\", '') AS NUMERIC) DESC NULLS LAST">>]
      [] function_name = "get_projects_by_fee_range" ->
           [params |-> <<"min_fee">>,
            param_types |-> <<"float">>,
            sql |-> <<"SELECT * FROM \"Sample\" WHERE \"Fee\" IS NOT NULL AND \"Fee\" != '' AND CAST(\"Fee\" AS",
                      "NUMERIC) >=",
                      "%s",
                      "{max_fee_filter}",
                      "ORDER BY CAST(\"Fee\" AS NUMERIC) DESC">>]
      [] function_name = "get_projects_by_size" ->
           [params |-> <<"size">>,
            param_types |-> <<"str">>,
            sql |-> <<"SELECT * FROM \"Sample\" WHERE \"Fee\" IS NOT NULL AND \"Fee\" != '' AND",
                      "CAST(NULLIF(\"Fee\", '') AS NUMERIC) > 0 AND",
                      "{size_case_statement}",
                      "=",
                      "%s",
                      "ORDER BY CAST(\"Fee\" AS NUMERIC) DESC">>]
      [] function_name = "get_size_distribution" ->
           [params |-> <<>>,
            param_types |-> <<>>,
            sql |-> <<"SELECT",
                      "{size_case_statement}",
                      "as size_tier, COUNT(*) as project_count, ROUND(SUM(CAST(NULLIF(\"Fee\", '') AS",
                      "NUMERIC))::numeric, 0) as total_value, ROUND(AVG(CAST(NULLIF(\"Fee\", '') AS",
                      "NUMERIC))::numeric, 0) as avg_fee, ROUND(MIN(CAST(NULLIF(\"Fee\", '') AS",
                      "NUMERIC))::numeric, 0) as min_fee, ROUND(MAX(CAST(NULLIF(\"Fee\", '') AS",
                      "NUMERIC))::numeric, 0) as max_fee, ROUND(AVG(CAST(NULLIF(\"Win %\", '') AS",
                      "NUMERIC))::numeric, 1) as avg_win_rate FROM \"Sample\" WHERE \"Fee\" IS NOT NULL AND",
                      "\"Fee\" != '' AND CAST(NULLIF(\"Fee\", '') AS NUMERIC) > 0 GROUP BY size_tier ORDER BY",
                      "MIN(CAST(NULLIF(\"Fee\", '') AS NUMERIC))">>]
      [] function_name = "get_similar_projects" ->
           [params |-> <<"project_name", "project_name">>,
            param_types |-> <<"str", "str">>,
            sql |-> <<"WITH target AS ( SELECT \"Request Category\", \"Company\", \"Fee\", \"Tags\" FROM \"Sample\"",
                      "WHERE \"Project Name\"::text ILIKE",
                      "%s",
                      "LIMIT 1 ) SELECT s.*, ABS(CAST(NULLIF(s.\"Fee\", '') AS NUMERIC) -",
                      "CAST(NULLIF(t.\"Fee\", '') AS NUMERIC)) as fee_diff FROM \"Sample\" s, target t WHERE",
                      "s.\"Request Category\" = t.\"Request Category\" AND s.\"Company\" = t.\"Company\" AND",
                      "s.\"Project Name\"::text NOT ILIKE",
                      "%s",
                      "ORDER BY fee_diff LIMIT 10">>]
      [] function_name = "compare_project_with_similar" ->
           [params |-> <<"project_name", "project_name">>,
            param_types |-> <<"str", "str">>,
            sql |-> <<"WITH target_project AS ( SELECT * FROM \"Sample\" WHERE \"Project Name\"::text ILIKE",
                      "%s",
                      "LIMIT 1 ) SELECT s.*, CASE WHEN s.\"Project Name\"::text ILIKE",
                      "%s",
                      "THEN 1 ELSE 0 END as is_target FROM \"Sample\" s, target_project tp WHERE s.\"Request",
                      "Category\" = tp.\"Request Category\" AND s.\"Company\" = tp.\"Company\" ORDER BY",
                      "ABS(CAST(NULLIF(s.\"Fee\", '') AS NUMERIC) - CAST(NULLIF(tp.\"Fee\", '') AS NUMERIC))",
                      "LIMIT 20">>]
      [] function_name = "get_related_projects" ->
           [params |-> <<"project_name", "project_name">>,
            param_types |-> <<"str", "str">>,
            sql |-> <<"WITH target_tags AS ( SELECT UNNEST(string_to_array(\"Tags\", ',')) as tag FROM",
                      "\"Sample\" WHERE \"Project Name\"::text ILIKE",
                      "%s",
                      "LIMIT 1 ) SELECT DISTINCT s.*, (SELECT COUNT(*) FROM target_tags tt WHERE s.\"Tags\"",
                      "ILIKE '%%' || tt.tag || '%%') as matching_tags FROM \"Sample\" s WHERE EXISTS ( SELECT",
                      "1 FROM target_tags tt WHERE s.\"Tags\" ILIKE '%%' || tt.tag || '%%' ) AND s.\"Project",
                      "Name\"::text NOT ILIKE",
                      "%s",
                      "ORDER BY matching_tags DESC, CAST(NULLIF(s.\"Fee\", '') AS NUMERIC) DESC NULLS LAST",
                      "LIMIT 20">>]
      [] function_name = "get_projects_by_status_and_win_rate" ->
           [params |-> <<"status", "min_win">>,
            param_types |-> <<"str", "int">>,
            sql |-> <<"SELECT * FROM \"Sample\" WHERE \"Status\" ILIKE",
                      "%s",
                      "AND \"Win %%\" IS NOT NULL AND \"Win %%\" != '' AND CAST(NULLIF(\"Win %%\", '') AS",
                      "NUMERIC) >",
                      "%s",
                      "ORDER BY CAST(NULLIF(\"Win %%\", '') AS NUMERIC) DESC">>]
      [] function_name = "analyze_pursuit_duration" ->
           [params |-> <<>>,
            param_types |-> <<>>,
            sql |-> <<"SELECT \"Company\", \"Status\", \"Request Category\", COUNT(*) as total_pursuits,",
                      "ROUND(AVG(EXTRACT(DAY FROM (CURRENT_DATE - \"Start Date\")))) as avg_days_old,",
                      "ROUND(PERCENTILE_CONT(0.5) WITHIN GROUP (ORDER BY EXTRACT(DAY FROM (CURRENT_DATE -",
                      "\"Start Date\")))) as median_days_old, MIN(EXTRACT(DAY FROM (CURRENT_DATE - \"Start",
                      "Date\"))) as newest_pursuit_days, MAX(EXTRACT(DAY FROM (CURRENT_DATE - \"Start",
                      "Date\"))) as oldest_pursuit_days, TO_CHAR(MIN(\"Start Date\"), 'YYYY-MM-DD') as",
                      "oldest_start_date, TO_CHAR(MAX(\"Start Date\"), 'YYYY-MM-DD') as newest_start_date,",
                      "ROUND(AVG(CAST(NULLIF(\"Win %\", '') AS NUMERIC))::numeric, 1) as avg_win_rate,",
                      "ROUND(SUM(CAST(NULLIF(\"Fee\", '') AS NUMERIC))::numeric, 0) as total_value FROM",
                      "\"Sample\" WHERE \"Status\" IN ('Won', 'Lost') AND \"Start Date\" IS NOT NULL AND \"Start",
                      "Date\" > '2020-01-01' AND \"Start Date\" <= CURRENT_DATE GROUP BY \"Company\", \"Status\",",
                      "\"Request Category\" HAVING COUNT(*) >= 2 ORDER BY \"Company\", \"Status\", avg_days_old",
                      "DESC">>]
      [] function_name = "get_all_projects" ->
           [params |-> <<>>,
            param_types |-> <<>>,
            sql |-> <<"SELECT \"Project Type\", \"Start Date\", \"Fee\", \"Client\", \"Project Name\", \"Status\",",
                      "\"Company\", \"Win %\", \"Tags\" FROM \"Sample\" ORDER BY \"Start Date\" DESC NULLS LAST">>]
      [] function_name = "get_projects_sorted" ->
           [params |-> <<>>,
            param_types |-> <<>>,
            sql |-> <<"SELECT * FROM \"Sample\" WHERE \"Win %\" IS NOT NULL AND \"Win %\" != '' AND \"Fee\" IS NOT",
                      "NULL AND \"Fee\" != '' ORDER BY CAST(NULLIF(\"Win %\", '') AS NUMERIC) DESC,",
                      "CAST(NULLIF(\"Fee\", '') AS NUMERIC) DESC">>]
      [] function_name = "group_projects_by_type_size" ->
           [params |-> <<>>,
            param_types |-> <<>>,
            sql |-> <<"SELECT \"Project Type\",",
                      "{size_case_statement}",
                      "as size_category, COUNT(*) as project_count, ROUND(SUM(CAST(NULLIF(\"Fee\", '') AS",
                      "NUMERIC))::numeric, 0) as total_value, ROUND(AVG(CAST(NULLIF(\"Win %\", '') AS",
                      "NUMERIC))::numeric, 1) as avg_win_rate FROM \"Sample\" WHERE \"Fee\" IS NOT NULL AND",
                      "\"Fee\" != '' AND CAST(NULLIF(\"Fee\", '') AS NUMERIC) > 0 GROUP BY \"Project Type\",",
                      "size_category ORDER BY \"Project Type\", MIN(CAST(NULLIF(\"Fee\", '') AS NUMERIC))">>]
      [] function_name = "get_projects_by_combined_filters" ->
           [params |-> <<>>,
            param_types |-> <<>>,
            sql |-> <<"SELECT * FROM \"Sample\" WHERE 1=1",
                      "{size_filter}",
                      "{category_filter}",
                      "{tag_filter}",
                      "{status_filter}",
                      "{company_filter}",
                      "{state_filter}",
                      "{fee_filter}",
                      "{win_filter}",
                      "{date_filter}",
                      "AND \"Start Date\" > '2000-01-01' ORDER BY CAST(NULLIF(\"Fee\", '') AS NUMERIC) DESC",
                      "NULLS LAST",
                      "{limit_clause}">>]
      [] function_name = "get_projects_by_contact" ->
           [params |-> <<"contact_name">>,
            param_types |-> <<"str">>,
            sql |-> <<"SELECT * FROM \"Sample\" WHERE \"Point Of Contact\" ILIKE",
                      "%s",
                      "ORDER BY CAST(NULLIF(\"Fee\", '') AS NUMERIC) DESC NULLS LAST">>]
      [] function_name = "get_project_by_id" ->
           [params |-> <<"project_name", "internal_id">>,
            param_types |-> <<"str", "str">>,
            sql |-> <<"SELECT * FROM \"Sample\" WHERE \"Project Name\"::text ILIKE",
                      "%s",
                      "OR \"Internal Id\" ILIKE",
                      "%s">>]
      [] function_name = "get_revenue_by_category" ->
           [params |-> <<"category">>,
            param_types |-> <<"str">>,
            sql |-> <<"SELECT \"Request Category\", COUNT(*) as project_count, SUM(CAST(NULLIF(\"Fee\", '') AS",
                      "NUMERIC)) as total_revenue, AVG(CAST(NULLIF(\"Fee\", '') AS NUMERIC)) as avg_revenue,",
                      "AVG(CAST(NULLIF(\"Win %%\", '') AS NUMERIC)) as avg_win_rate FROM \"Sample\" WHERE",
                      "\"Request Category\" ILIKE",
                      "%s",
                      "{status_filter}",
                      "GROUP BY \"Request Category\"">>]
      [] function_name = "get_weighted_revenue_projection" ->
           [params |-> <<>>,
            param_types |-> <<>>,
            sql |-> <<"SELECT \"Status\", COUNT(*) as project_count, SUM(CAST(NULLIF(\"Fee\", '') AS NUMERIC))",
                      "as total_value, SUM(CAST(NULLIF(\"Fee\", '') AS NUMERIC) * CAST(NULLIF(\"Win %%\", '')",
                      "AS NUMERIC) / 100) as weighted_expected_value, AVG(CAST(NULLIF(\"Win %%\", '') AS",
                      "NUMERIC)) as avg_win_rate FROM \"Sample\" WHERE \"Status\" NOT IN ('Won', 'Lost') AND",
                      "\"Win %%\" IS NOT NULL AND \"Win %%\" != '' GROUP BY \"Status\" ORDER BY",
                      "weighted_expected_value DESC">>]
      [] function_name = "compare_years" ->
           [params |-> <<"year1", "year2">>,
            param_types |-> <<"int", "int">>,
            sql |-> <<"SELECT EXTRACT(YEAR FROM \"Start Date\") as year, COUNT(*) as project_count,",
                      "SUM(CAST(NULLIF(\"Fee\", '') AS NUMERIC)) as total_revenue, AVG(CAST(NULLIF(\"Fee\", '')",
                      "AS NUMERIC)) as avg_project_size, AVG(CAST(NULLIF(\"Win %%\", '') AS NUMERIC)) as",
                      "avg_win_rate FROM \"Sample\" WHERE EXTRACT(YEAR FROM \"Start Date\") IN (",
                      "%s",
                      ",",
                      "%s",
                      ") AND \"Start Date\" > '2000-01-01' GROUP BY year ORDER BY year">>]

(***************************************************************************)
(* QueryEngine.preprocess_query.  The Intent is refined pass by pass; a    *)
(* pass state is [fn, args, bound, date_range, raised]:                    *)
(*   fn, args    classification["function_name"], classification["arguments"]*)
(*   bound       whether the local variable date_range has been assigned   *)
(*   date_range  its value (<<>> for None)                                 *)
(*   raised      the exception that ended the call, "" while it runs       *)
(***************************************************************************)
Raise(s, exception) == [s EXCEPT !.raised = exception]

\* STEP 0: semantic time reference
TimeReferencePass(intent, now) ==
    LET args     == intent.arguments
        present  == Has(args, "time_reference") /\ args["time_reference"] # <<>>
        date_range == IF present
                      THEN SemanticTimeParser_parse(args["time_reference"], now)
                      ELSE <<>>
    IN  [fn         |-> intent.function_name,
         args       |-> IF ~present THEN args
                        ELSE IF date_range # <<>>
                        THEN Pop(Put(Put(args, "start_date", date_range[1]),
                                     "end_date", date_range[2]), "time_reference")
                        ELSE Pop(args, "time_reference"),
         bound      |-> present,
         date_range |-> date_range,
         raised     |-> ""]

\* STEP 0.5: status normalization
NormalStatus(status) ==
    CASE status \in {<<"won">>, <<"win">>, <<"winning">>, <<"successful">>, <<"awarded">>}
                                                       -> <<"won">>
      [] status \in {<<"lost">>, <<"lose">>, <<"losing">>, <<"unsuccessful">>,
                     <<"rejected">>}                   -> <<"lost">>
      [] status \in {<<"submit">>, <<"submitted">>, <<"pending">>, <<"awaiting">>}
                                                       -> <<"submitted">>
      [] status \in {<<"lead">>, <<"leads">>, <<"opportunity">>, <<"opportunities">>}
                                                       -> <<"lead">>
      [] status \in {<<"proposal">>, <<"proposal", "development">>, <<"developing">>}
                                                       -> <<"proposal", "development">>
      [] OTHER -> <<>>

\* a status that is none of the variations is left as the classifier gave it
StatusPass(s) ==
    IF Has(s.args, "status") /\ NormalStatus(LowerText(s.args["status"])) # <<>>
    THEN [s EXCEPT !.args = Put(s.args, "status",
                                 NormalStatus(LowerText(s.args["status"])))]
    ELSE s

has_tag_keyword(q) == TextContains(q, "tag")

has_category_keyword(q) ==
    \/ TextContainsAny(q, {"category", "categories"})
    \/ TextContainsPair(q, "market", "segment")

is_ranking_query(q) ==
    TextContainsAny(q, {"largest", "biggest", "top", "highest", "greatest", "major"})

\* arguments.get(key, "") of a text-valued key
GetText(args, key) == IF Has(args, key) THEN args[key] ELSE <<>>

\* the rewrite of a category call to a tag call; tags[0] of an empty list
\* raises IndexError
TagRewrite(s, tags, ranked) ==
    IF Len(tags) > 1
    THEN [s EXCEPT !.fn = "get_projects_by_multiple_tags",
                   !.args = [x \in {"tags"} |-> tags]]
    ELSE IF tags = <<>> THEN Raise(s, "IndexError")
    ELSE [s EXCEPT !.fn = IF ranked THEN "get_largest_by_tags" ELSE "get_projects_by_tags",
                   !.args = [x \in {"tag"} |-> tags[1]]]

\* STEP 0.75: tag vs category
TagCategoryPass(q, s) ==
    IF ~(has_tag_keyword(q) /\ ~has_category_keyword(q)) THEN s
    ELSE IF s.fn = "get_largest_by_category"
    THEN TagRewrite(s, parse_multiple_items(GetText(s.args, "category")),
                    is_ranking_query(q))
    ELSE IF s.fn = "get_projects_by_category"
    THEN TagRewrite(s, parse_multiple_items(GetText(s.args, "category")), FALSE)
    ELSE IF s.fn = "get_projects_by_tags"
    THEN LET tags == parse_multiple_items(GetText(s.args, "tag"))
         IN  IF Len(tags) > 1
             THEN [s EXCEPT !.fn = "get_projects_by_multiple_tags",
                            !.args = [x \in {"tags"} |-> tags]]
             ELSE s
    ELSE s

\* explicit multi-tag calls: at most 5 tags, a single tag collapses
MultiTagPass(s) ==
    IF s.fn # "get_projects_by_multiple_tags" THEN s
    ELSE LET tags == IF Has(s.args, "tags") THEN s.args["tags"] ELSE <<>>
         IN  IF Len(tags) > MaxItems
             THEN [s EXCEPT !.args = Put(s.args, "tags", SeqHead(tags, MaxItems))]
             ELSE IF Len(tags) = 1
             THEN [s EXCEPT !.fn = "get_projects_by_tags",
                            !.args = [x \in {"tag"} |-> tags[1]]]
             ELSE s

\* STEP 0.8: company comparison validation
CompanyPass(s) ==
    IF s.fn = "compare_opco_revenue"
       /\ (IF Has(s.args, "companies") THEN s.args["companies"] ELSE <<>>) = <<>>
    THEN [s EXCEPT !.fn = "compare_companies", !.args = EmptyArgs]
    ELSE s

MonthProtected ==
    {"get_largest_by_tags", "get_projects_by_tags",
     "get_projects_by_multiple_tags", "get_projects_by_combined_filters"}

\* the protected functions without the combined-filter call
ProtectedTagsOnly == {"get_largest_by_tags", "get_projects_by_multiple_tags"}

Protected ==
    {"get_largest_by_tags", "get_projects_by_multiple_tags",
     "get_projects_by_combined_filters"}

has_rank_word(q) == TextContainsAny(q, {"largest", "top", "biggest"})

\* STEP 1, month range
MonthRangePass(q, s) ==
    LET month_range == parse_month_range(q)
    IN  IF month_range = <<>> THEN s
        ELSE [s EXCEPT !.args = Put(Put(s.args, "start_date", month_range[1]),
                                    "end_date", month_range[2]),
                       !.fn = IF s.fn \notin MonthProtected
                              THEN "get_projects_by_date_range" ELSE s.fn]

PopAll(args, keys) == [x \in (DOMAIN args) \ keys |-> args[x]]

\* STEP 1, relative date: runs only when no month range matched, and then
\* assigns date_range
RelativeDatePass(q, s, now) ==
    IF parse_month_range(q) # <<>> THEN s
    ELSE LET date_range == parse_relative_date(q, now)
             t == [s EXCEPT !.bound = TRUE, !.date_range = date_range]
         IN  IF date_range = <<>> THEN t
             ELSE [t EXCEPT
                     !.args = PopAll(Put(Put(s.args, "start_date", date_range[1]),
                                         "end_date", date_range[2]),
                                     {"start_year", "end_year", "time_reference"}),
                     !.fn = IF s.fn \in Protected THEN s.fn
                            ELSE IF has_rank_word(LowerText(q))
                            THEN "get_largest_projects"
                            ELSE "get_projects_by_date_range"]

\* STEP 1, quarter
\* the quarter pass naming a function the catalog does not hold
QuarterPassUncatalogued(q, s) ==
    LET quarter_info == parse_specific_quarter(q)
    IN  IF quarter_info # <<>> /\ s.fn # "get_projects_by_combined_filters"
        THEN [s EXCEPT !.fn = "get_projects_by_quarters",
                       !.args = Put(Put(s.args, "year", quarter_info[1]),
                                    "quarter", quarter_info[2])]
        ELSE s

QuarterPass(q, s) ==
    LET quarter_info == parse_specific_quarter(q)
    IN  IF quarter_info # <<>> /\ s.fn # "get_projects_by_combined_filters"
        THEN [s EXCEPT !.fn = "get_projects_by_quarter",
                       !.args = Put(Put(s.args, "year", quarter_info[1]),
                                    "quarter", quarter_info[2])]
        ELSE s

YearRankTargets ==
    {"get_largest_projects", "get_largest_by_tags",
     "get_projects_by_multiple_tags", "get_projects_by_combined_filters"}

YearProtected ==
    {"get_largest_projects", "get_smallest_projects", "get_largest_by_tags",
     "get_projects_by_tags", "get_projects_by_multiple_tags",
     "get_projects_by_combined_filters"}

\* STEP 1, several years or one year.  The elif reads the local variable
\* date_range, which is unassigned when a month range matched and STEP 0
\* did not parse a time reference: UnboundLocalError.
YearPass(q, s) ==
    LET years == parse_multiple_years(q)
        lower == LowerText(q)
        year  == parse_specific_year(q)
    IN  IF years # <<>>
        THEN IF s.fn = "get_projects_by_combined_filters" THEN s
             ELSE IF Len(years) = 2 /\ TextContainsAny(lower, {"compare", "vs", "versus"})
             THEN [s EXCEPT !.fn = "compare_years",
                            !.args = Put(Put(s.args, "year1", years[1]), "year2", years[2])]
             ELSE [s EXCEPT !.fn = "get_projects_by_years",
                            !.args = Put(s.args, "years", years)]
        ELSE IF ~s.bound THEN Raise(s, "UnboundLocalError")
        ELSE IF ~(s.date_range = <<>> /\ parse_month_range(q) = <<>>) THEN s
        ELSE IF year = <<>> THEN s
        ELSE IF has_rank_word(lower)
        THEN IF s.fn \in YearRankTargets
             THEN [s EXCEPT !.args = Put(Put(s.args, "start_year", year[1]),
                                         "end_year", year[1])]
             ELSE s
        ELSE IF s.fn \notin YearProtected
        THEN [s EXCEPT !.fn = "get_projects_by_year",
                       !.args = Put(s.args, "year", year[1])]
        ELSE s

\* STEP 2: fee range
FeeRangePass(q, s) ==
    LET fee_range == parse_fee_range(q)
        max_fee   == IF fee_range[2] # <<>> /\ fee_range[2][1] # ZeroMoney
                     THEN fee_range[2][1] ELSE MaxFeeSentinel
        args      == Put(Put(s.args, "min_fee", fee_range[1]), "max_fee", max_fee)
    IN  IF fee_range = <<>> THEN s
        ELSE [s EXCEPT
                !.args = args,
                !.fn = IF s.fn \in Protected THEN s.fn
                       ELSE IF Has(s.args, "client")
                               \/ TextContainsAny(LowerText(q), {"tamu", "clid"})
                       THEN "get_projects_by_client_and_fee_range"
                       ELSE "get_projects_by_fee_range"]

\* STEP 3 filling in the limit only where the classifier gave none
LimitPassDefault(q, s) ==
    LET limit == parse_limit(q)
    IN  IF limit # <<>> /\ limit[1] # 0 /\ ~Has(s.args, "limit")
        THEN [s EXCEPT !.args = Put(s.args, "limit", limit[1])]
        ELSE s

\* STEP 3: limit
LimitPass(q, s) ==
    LET limit == parse_limit(q)
    IN  IF limit # <<>> /\ limit[1] # 0
        THEN [s EXCEPT !.args = Put(s.args, "limit", limit[1])]
        ELSE s

\* the ten passes after STEP 0, in the order of the source
\* the passes with the fee-range pass run before the date passes
ApplyPassFeeFirst(i, q, s, now) ==
    CASE i = 1  -> StatusPass(s)
      [] i = 2  -> TagCategoryPass(LowerText(q), s)
      [] i = 3  -> MultiTagPass(s)
      [] i = 4  -> CompanyPass(s)
      [] i = 5  -> FeeRangePass(q, s)
      [] i = 6  -> MonthRangePass(q, s)
      [] i = 7  -> RelativeDatePass(q, s, now)
      [] i = 8  -> QuarterPass(q, s)
      [] i = 9  -> YearPass(q, s)
      [] i = 10 -> LimitPass(q, s)

ApplyPass(i, q, s, now) ==
    CASE i = 1  -> StatusPass(s)
      [] i = 2  -> TagCategoryPass(LowerText(q), s)
      [] i = 3  -> MultiTagPass(s)
      [] i = 4  -> CompanyPass(s)
      [] i = 5  -> MonthRangePass(q, s)
      [] i = 6  -> RelativeDatePass(q, s, now)
      [] i = 7  -> QuarterPass(q, s)
      [] i = 8  -> YearPass(q, s)
      [] i = 9  -> FeeRangePass(q, s)
      [] i = 10 -> LimitPass(q, s)

RECURSIVE RunPasses(_, _, _, _)
\* passes i.. applied to s; a pass runs unless an earlier one raised
RunPasses(i, q, s, now) ==
    IF i > 10 \/ s.raised # "" THEN s
    ELSE RunPasses(i + 1, q, ApplyPass(i, q, s, now), now)

Outcome(s) == [raised |-> s.raised, function_name |-> s.fn, arguments |-> s.args]

preprocess_query(user_question, intent, now) ==
    Outcome(RunPasses(1, user_question, TimeReferencePass(intent, now), now))

(***************************************************************************)
(* ProjectSizeCalculator.  percentiles is <<>> (None) or <<snapshot>>;     *)
(* `db` is what the percentile query returns when it is run: <<snapshot>>, *)
(* or <<>> when it fails (connection error, or no usable row).             *)
(***************************************************************************)
calculate_percentiles_clearing(stored, db) == IF db # <<>> THEN db ELSE <<>>

calculate_percentiles(stored, db) == IF db # <<>> THEN db ELSE stored

\* the CASE expression, as one piece of SQL text
SizeCaseText(snapshot) ==
    IF snapshot = <<>>
    THEN [text |-> "CASE <fixed thresholds> END", key |-> ""]
    ELSE [text |-> "CASE <percentile boundaries> END", key |-> "", val |-> snapshot[1]]

\* [percentiles, queried, text]: the snapshot after the call, whether the
\* database was queried, and the CASE expression
get_sql_case_statement(stored, db) ==
    IF stored = <<>>
    THEN [percentiles |-> calculate_percentiles(stored, db), queried |-> TRUE,
          text |-> SizeCaseText(calculate_percentiles(stored, db))]
    ELSE [percentiles |-> stored, queried |-> FALSE, text |-> SizeCaseText(stored)]

(***************************************************************************)
(* QueryEngine.build_sql_query.                                            *)
(*  - SQL text is a sequence of pieces [text, key(, val)]: fixed text has  *)
(*    key = ""; a value formatted into the text by an f-string is the      *)
(*    piece [text |-> "{}", key |-> <argument name>, val |-> <value>].     *)
(*  - A bound parameter is [kind, v]: "like" is f"%{v}%", "exact" is       *)
(*    str(v), "int" is int(v), "float" is float(v), "raw" is v as given,   *)
(*    "array" is a list passed on and "likearray" a list of f"%{v}%".      *)
(***************************************************************************)
Fixed(text) == [text |-> text, key |-> ""]

FixedAll(pieces) == [i \in 1..Len(pieces) |-> Fixed(pieces[i])]

Interpolated(key, val) == [text |-> "{}", key |-> key, val |-> val]

Placeholder == Fixed("%s")

Slot(name) == Fixed(name)

RECURSIVE Replace(_, _, _)
\* str.replace(slot, by) on the text
Replace(sql, slot, by) ==
    IF sql = <<>> THEN <<>>
    ELSE (IF sql[1] = Slot(slot) THEN by ELSE <<sql[1]>>) \o Replace(Tail(sql), slot, by)

HasSlot(sql, slot) == \E i \in 1..Len(sql) : sql[i] = Slot(slot)

\* Python truthiness of arguments[key], by the type the key holds
Truthy(args, key) ==
    /\ Has(args, key)
    /\ IF key \in {"limit", "min_win", "max_win"} THEN args[key] # 0
       ELSE IF key \in {"min_fee", "max_fee"} THEN args[key] # ZeroMoney
       ELSE args[key] # <<>>

\* n copies of a condition joined by a connective
RECURSIVE Joined(_, _, _)
Joined(n, condition, connective) ==
    IF n = 0 THEN <<>>
    ELSE IF n = 1 THEN condition
    ELSE condition \o <<Fixed(connective)>> \o Joined(n - 1, condition, connective)

\* one pattern for the whole list
LikeList(values) ==
    IF values = <<>> THEN <<>> ELSE <<[kind |-> "likearray", v |-> values]>>

LikeAll(values) == [i \in 1..Len(values) |-> [kind |-> "like", v |-> values[i]]]

\* "LIMIT {int(arguments['limit'])}", or nothing
LimitClause(args) ==
    IF Truthy(args, "limit")
    THEN <<Fixed("LIMIT"), Interpolated("limit", args["limit"])>>
    ELSE <<>>

\* The filters of the combined path, in the order of the source
CombinedSlots ==
    <<"{size_filter}", "{category_filter}", "{tag_filter}", "{status_filter}",
      "{company_filter}", "{state_filter}", "{fee_filter}", "{win_filter}",
      "{date_filter}", "{limit_clause}">>

\* a non-empty list argument, or <<>>
ListArg(args, key) == IF Truthy(args, key) THEN args[key] ELSE <<>>

\* the status filter written the way the regular path writes it
StatusClauseFormatted(args) ==
    IF Truthy(args, "status")
    THEN <<Fixed("AND \"Status\" ILIKE '%"), Interpolated("status", args["status"]),
           Fixed("%'")>>
    ELSE <<>>

\* the status filter of the combined path
StatusClause(args) ==
    IF Truthy(args, "status")
    THEN <<Fixed("AND \"Status\" ILIKE"), Placeholder>> ELSE <<>>

\* the clause a filter puts in place of its slot ("" when it is not present)
FilterClause(slot, args, size_case) ==
    CASE slot = "{size_filter}" ->
           IF Truthy(args, "size")
           THEN <<Fixed("AND"), size_case, Fixed("ILIKE"), Placeholder>> ELSE <<>>
      [] slot = "{category_filter}" ->
           IF ListArg(args, "categories") # <<>>
           THEN <<Fixed("AND (")>>
                \o Joined(Len(args["categories"]),
                          <<Fixed("\"Request Category\" ILIKE"), Placeholder>>, "OR")
                \o <<Fixed(")")>>
           ELSE <<>>
      [] slot = "{tag_filter}" ->
           IF ListArg(args, "tags") # <<>>
           THEN <<Fixed("AND")>>
                \o Joined(Len(args["tags"]), <<Fixed("\"Tags\" ILIKE"), Placeholder>>, "AND")
           ELSE <<>>
      [] slot = "{status_filter}" -> StatusClause(args)
      [] slot = "{company_filter}" ->
           IF Truthy(args, "company")
           THEN <<Fixed("AND \"Company\" ILIKE"), Placeholder>> ELSE <<>>
      [] slot = "{state_filter}" ->
           IF Truthy(args, "state_code")
           THEN <<Fixed("AND \"State Lookup\" ="), Placeholder>> ELSE <<>>
      [] slot = "{fee_filter}" ->
           (IF Truthy(args, "min_fee")
            THEN <<Fixed("AND CAST(NULLIF(\"Fee\", '') AS NUMERIC) >="), Placeholder>>
            ELSE <<>>)
           \o (IF Truthy(args, "max_fee")
               THEN <<Fixed("AND CAST(NULLIF(\"Fee\", '') AS NUMERIC) <="), Placeholder>>
               ELSE <<>>)
      [] slot = "{win_filter}" ->
           (IF Truthy(args, "min_win")
            THEN <<Fixed("AND CAST(NULLIF(\"Win %\", '') AS NUMERIC) >="), Placeholder>>
            ELSE <<>>)
           \o (IF Truthy(args, "max_win")
               THEN <<Fixed("AND CAST(NULLIF(\"Win %\", '') AS NUMERIC) <="), Placeholder>>
               ELSE <<>>)
      [] slot = "{date_filter}" ->
           (IF Truthy(args, "start_date")
            THEN <<Fixed("AND \"Start Date\" >="), Placeholder, Fixed("::date")>>
            ELSE <<>>)
           \o (IF Truthy(args, "end_date")
               THEN <<Fixed("AND \"Start Date\" <="), Placeholder, Fixed("::date")>>
               ELSE <<>>)
      [] slot = "{limit_clause}" -> LimitClause(args)

\* one bound value of a filter, when the argument is present
Bound(args, key, kind) ==
    IF Truthy(args, key) THEN <<[kind |-> kind, v |-> args[key]]>> ELSE <<>>

\* the values a filter appends to params
FilterParams(slot, args) ==
    CASE slot = "{size_filter}"     -> Bound(args, "size", "like")
      [] slot = "{category_filter}" -> LikeAll(ListArg(args, "categories"))
      [] slot = "{tag_filter}"      -> LikeAll(ListArg(args, "tags"))
      [] slot = "{status_filter}"   -> Bound(args, "status", "like")
      [] slot = "{company_filter}"  -> Bound(args, "company", "like")
      [] slot = "{state_filter}"    -> Bound(args, "state_code", "exact")
      [] slot = "{fee_filter}"      ->
           Bound(args, "min_fee", "float") \o Bound(args, "max_fee", "float")
      [] slot = "{win_filter}"      ->
           Bound(args, "min_win", "int") \o Bound(args, "max_win", "int")
      [] slot = "{date_filter}"     ->
           Bound(args, "start_date", "raw") \o Bound(args, "end_date", "raw")
      [] slot = "{limit_clause}"    -> <<>>

RECURSIVE CombinedSql(_, _, _, _)
\* the text after the filters i.. have replaced their slots
CombinedSql(i, sql, args, size_case) ==
    IF i > Len(CombinedSlots) THEN sql
    ELSE CombinedSql(i + 1,
                     Replace(sql, CombinedSlots[i],
                             FilterClause(CombinedSlots[i], args, size_case)),
                     args, size_case)

RECURSIVE CombinedParams(_, _)
\* params after the filters i.. have appended their values
CombinedParams(i, args) ==
    IF i > Len(CombinedSlots) THEN <<>>
    ELSE FilterParams(CombinedSlots[i], args) \o CombinedParams(i + 1, args)

\* The combined-filter path; the size filter alone asks the size calculator
CombinedQuery(template, args, stored, size) ==
    [sql         |-> <<CombinedSql(1, FixedAll(template.sql), args, size.text)>>,
     params      |-> <<CombinedParams(1, args)>>,
     percentiles |-> IF Truthy(args, "size") THEN size.percentiles ELSE stored,
     queried     |-> Truthy(args, "size") /\ size.queried]

\* arguments.get(key, default)
Get(args, key, default) == IF Has(args, key) THEN args[key] ELSE default

\* The "{date_filter}" text of the regular path (chosen by key presence)
RegularDateFilter(args) ==
    IF Has(args, "start_date") /\ Has(args, "end_date")
    THEN <<Fixed("AND \"Start Date\" >= '"), Interpolated("start_date", args["start_date"]),
           Fixed("'::date AND \"Start Date\" <= '"), Interpolated("end_date", args["end_date"]),
           Fixed("'::date AND \"Start Date\" > '2000-01-01'")>>
    ELSE IF Has(args, "start_year") /\ Has(args, "end_year")
    THEN <<Fixed("AND \"Start Date\" >= '"), Interpolated("start_year", args["start_year"]),
           Fixed("-01-01'::date AND \"Start Date\" <= '"),
           Interpolated("end_year", args["end_year"]),
           Fixed("-12-31'::date AND \"Start Date\" > '2000-01-01'")>>
    ELSE <<>>

RegularStatusFilter(args) ==
    IF Truthy(args, "status")
    THEN <<Fixed("AND \"Status\" ILIKE '%"), Interpolated("status", args["status"]),
           Fixed("%'")>>
    ELSE <<>>

MaxFeeFilter(args) ==
    IF Truthy(args, "max_fee") /\ MoneyLess(args["max_fee"], MaxFeeSentinel)
    THEN <<Fixed("AND CAST(\"Fee\" AS NUMERIC) <="), Interpolated("max_fee", args["max_fee"])>>
    ELSE <<>>

\* The value bound for one declared parameter
ParamValue(param_name, param_type, args) ==
    IF param_name = "state_code"
    THEN [kind |-> "exact", v |-> Get(args, param_name, <<>>)]
    ELSE IF param_name = "status"
    THEN [kind |-> "like", v |-> Get(args, param_name, <<>>)]
    ELSE IF param_name \in {"min_win", "max_win"}
    THEN [kind |-> "int", v |-> Get(args, param_name, 0)]
    ELSE IF param_name \in {"project_name", "internal_id", "reference_client",
                            "reference_project"}
    THEN LET a == Get(args, param_name, <<>>)
             b == IF a = <<>> /\ param_name \in {"reference_project", "internal_id"}
                  THEN Get(args, "project_name", <<>>) ELSE a
             c == IF b = <<>> /\ param_name = "reference_client"
                  THEN Get(args, "client", <<>>) ELSE b
         IN  [kind |-> "like", v |-> c]
    ELSE IF Has(args, param_name)
    THEN CASE param_type = "int"   -> [kind |-> "int", v |-> args[param_name]]
           [] param_type = "float" -> [kind |-> "float", v |-> args[param_name]]
           [] param_type = "array" ->
                IF args[param_name] = <<>> THEN [kind |-> "array", v |-> <<>>]
                ELSE IF param_name \in {"categories", "companies"}
                THEN [kind |-> "likearray", v |-> args[param_name]]
                ELSE [kind |-> "array", v |-> args[param_name]]
           [] param_type = "str"   -> [kind |-> "like", v |-> args[param_name]]
           [] OTHER                -> [kind |-> "raw", v |-> args[param_name]]
    ELSE CASE param_type = "int"   -> [kind |-> "int", v |-> 0]
           [] param_type = "float" -> [kind |-> "float", v |-> ZeroMoney]
           [] param_type = "array" -> [kind |-> "array", v |-> <<>>]
           [] OTHER                -> [kind |-> "like", v |-> <<>>]

\* the indices of the declared parameters, without those that repeat a name
FirstMentions(names) ==
    {idx \in 1..Len(names) : \A j \in 1..(idx - 1) : names[j] # names[idx]}

\* the parameter loop binding each name once
BuildParamsOnce(template, args) ==
    [k \in 1..Cardinality(FirstMentions(template.params)) |->
        ParamValue(
            template.params[CHOOSE idx \in FirstMentions(template.params) :
                Cardinality({j \in FirstMentions(template.params) : j < idx}) = k - 1],
            template.param_types[CHOOSE idx \in FirstMentions(template.params) :
                Cardinality({j \in FirstMentions(template.params) : j < idx}) = k - 1],
            args)]

\* The parameter loop: one value per declared parameter, in declared order
BuildParams(template, args) ==
    [idx \in 1..Len(template.params) |->
        ParamValue(template.params[idx],
                   IF idx <= Len(template.param_types) THEN template.param_types[idx]
                   ELSE "str",
                   args)]

\* The regular path: [sql, params, percentiles, queried]; params is
\* <<tuple>>, or <<>> for None when the template declares no parameter
RegularQuery(template, args, stored, size) ==
    [sql         |-> <<Replace(Replace(Replace(Replace(Replace(
                           FixedAll(template.sql),
                           "{size_case_statement}", <<size.text>>),
                           "{date_filter}", RegularDateFilter(args)),
                           "{status_filter}", RegularStatusFilter(args)),
                           "{limit_clause}", LimitClause(args)),
                           "{max_fee_filter}", MaxFeeFilter(args))>>,
     params      |-> IF Len(template.params) > 0
                     THEN <<BuildParams(template, args)>> ELSE <<>>,
     percentiles |-> IF HasSlot(FixedAll(template.sql), "{size_case_statement}")
                     THEN size.percentiles ELSE stored,
     queried     |-> HasSlot(FixedAll(template.sql), "{size_case_statement}")
                     /\ size.queried]

\* (sql, params) as optional values, with the size calculator's snapshot
\* after the call and whether the percentile query was run
build_sql_query(function_name, args, stored, db) ==
    IF function_name \notin CatalogKeys
    THEN [sql |-> <<>>, params |-> <<>>, percentiles |-> stored, queried |-> FALSE]
    ELSE IF function_name = "get_projects_by_combined_filters"
    THEN CombinedQuery(query_templates(function_name), args, stored,
                       get_sql_case_statement(stored, db))
    ELSE RegularQuery(query_templates(function_name), args, stored,
                      get_sql_case_statement(stored, db))

(***************************************************************************)
(* AzureOpenAIClient.classify_query.  `reply` is what the model call       *)
(* produced: kind "json" with the parsed object's function_name (<<>> when *)
(* the key is missing or null) and arguments, kind "bad_json" when         *)
(* json.loads raised, kind "error" when anything else raised.              *)
(***************************************************************************)
classify_query(reply) ==
    IF reply.kind = "json"
    THEN [function_name |-> reply.function_name, arguments |-> reply.arguments,
          error |-> ""]
    ELSE [function_name |-> <<"none">>, arguments |-> EmptyArgs,
          error |-> IF reply.kind = "bad_json" THEN "JSON parse error" ELSE "exception"]

\* the Intent that process_query hands to preprocess_query
IntentOf(c) == [function_name |-> c.function_name[1], arguments |-> c.arguments]

\* template.get("chart_type", "none")
chart_type(function_name) ==
    IF function_name \in {"get_project_win_rate", "predict_win_probability",
                          "get_all_projects", "get_project_by_id",
                          "get_revenue_by_category"}
    THEN "none"
    ELSE IF function_name \in {"get_status_breakdown", "get_size_distribution"}
    THEN "pie"
    ELSE "bar"

(***************************************************************************)
(* QueryEngine.execute_query.  `db` is the outcome of the percentile query *)
(* should the builder run it; `outcome` is what the database does with the *)
(* query itself: [kind, rows] with kind "connect_error", "execute_error",  *)
(* "fetch_error", "convert_error" (a row that cannot be converted) or      *)
(* "rows".  `trace` lists the calls made, in order.                        *)
(***************************************************************************)
\* what follows cursor.execute: the rows are fetched, and once they are
\* the cursor and the connection are closed before the rows are converted
AfterExecute(b, outcome) ==
    IF b.sql = <<>> \/ outcome.kind \in {"connect_error", "execute_error"} THEN <<>>
    ELSE IF outcome.kind = "fetch_error" THEN <<"cursor.fetchall">>
    ELSE <<"cursor.fetchall", "conn.close">>

\* execute_query testing for the missing SQL only after it has connected
ExecutedAfterConnect(b, function_name, outcome) ==
    [built   |-> b,
     trace   |-> <<"build_sql_query">>
                 \o (IF b.queried THEN <<"calculate_percentiles">> ELSE <<>>)
                 \o <<"connect">>
                 \o (IF b.sql = <<>> \/ outcome.kind = "connect_error" THEN <<>>
                     ELSE <<"cursor.execute">>)
                 \o AfterExecute(b, outcome),
     results |-> IF outcome.kind = "connect_error"
                 THEN [success |-> FALSE, error |-> outcome.kind, data |-> <<>>,
                       row_count |-> 0, chart_type |-> "none", traceback |-> "traceback"]
                 ELSE IF b.sql = <<>>
                 THEN [success |-> FALSE, error |-> "Unknown function", data |-> <<>>,
                       row_count |-> 0, chart_type |-> "none", traceback |-> ""]
                 ELSE IF outcome.kind # "rows"
                 THEN [success |-> FALSE, error |-> outcome.kind, data |-> <<>>,
                       row_count |-> 0, chart_type |-> "none", traceback |-> "traceback"]
                 ELSE [success |-> TRUE, error |-> "", data |-> outcome.rows,
                       row_count |-> Len(outcome.rows),
                       chart_type |-> chart_type(function_name), traceback |-> ""]]

Executed(b, function_name, outcome) ==
    [built   |-> b,
     trace   |-> <<"build_sql_query">>
                 \o (IF b.queried THEN <<"calculate_percentiles">> ELSE <<>>)
                 \o (IF b.sql = <<>> THEN <<>> ELSE <<"connect">>)
                 \o (IF b.sql = <<>> \/ outcome.kind = "connect_error" THEN <<>>
                     ELSE <<"cursor.execute">>)
                 \o AfterExecute(b, outcome),
     results |-> IF b.sql = <<>>
                 THEN [success |-> FALSE, error |-> "Unknown function", data |-> <<>>,
                       row_count |-> 0, chart_type |-> "none", traceback |-> ""]
                 ELSE IF outcome.kind # "rows"
                 THEN [success |-> FALSE, error |-> outcome.kind, data |-> <<>>,
                       row_count |-> 0, chart_type |-> "none", traceback |-> "traceback"]
                 ELSE [success |-> TRUE, error |-> "", data |-> outcome.rows,
                       row_count |-> Len(outcome.rows),
                       chart_type |-> chart_type(function_name), traceback |-> ""]]

execute_query(function_name, args, stored, db, outcome) ==
    Executed(build_sql_query(function_name, args, stored, db), function_name, outcome)

\* None (<<>>), or the chart of the template's type
generate_chart_config(results) ==
    IF ~results.success \/ results.row_count = 0 \/ results.chart_type = "none"
    THEN <<>>
    ELSE IF results.chart_type = "bar"
    THEN <<[type |-> "bar", points |-> Min(Len(results.data), 20)]>>
    ELSE IF results.chart_type = "pie"
    THEN <<[type |-> "pie", points |-> Len(results.data)]>>
    ELSE <<>>

\* the fees that enter the statistics: item["Fee"] of the rows where it is truthy
FeesOf(data) == SelectSeq(data, LAMBDA fee : fee # 0)

RECURSIVE Sum(_)
Sum(fees) == IF fees = <<>> THEN 0 ELSE fees[1] + Sum(Tail(fees))

\* sorted(fees)
RECURSIVE Insert(_, _)
Insert(fee, ascending) ==
    IF ascending = <<>> THEN <<fee>>
    ELSE IF fee <= ascending[1] THEN <<fee>> \o ascending
    ELSE <<ascending[1]>> \o Insert(fee, Tail(ascending))

RECURSIVE Sorted(_)
Sorted(fees) == IF fees = <<>> THEN <<>> ELSE Insert(fees[1], Sorted(Tail(fees)))

\* the element just below the middle for an even number of fees
MedianLower(fees) == Sorted(fees)[(Len(fees) - 1) \div 2 + 1]

\* sorted(fees)[len(fees) // 2]
Median(fees) == Sorted(fees)[Len(fees) \div 2 + 1]

\* the fee statistics; avg_fee, a quotient, is <<sum, count>>
FeeStats(fees) ==
    IF fees = <<>> THEN EmptyArgs
    ELSE ("total_value" :> Sum(fees)) @@ ("avg_fee" :> <<Sum(fees), Len(fees)>>)
         @@ ("median_fee" :> Median(fees)) @@ ("min_fee" :> Sorted(fees)[1])
         @@ ("max_fee" :> Sorted(fees)[Len(fees)])

\* {} for no data; a row is its "Fee", so that of the statistics
\* total_records and the fee statistics are modelled
calculate_summary_stats(data) ==
    IF data = <<>> THEN EmptyArgs
    ELSE ("total_records" :> Len(data)) @@ FeeStats(FeesOf(data))

(***************************************************************************)
(* The responses of QueryEngine.process_query, as dictionaries, and of     *)
(* lambda_handler when process_query raises.                               *)
(***************************************************************************)
\* the 'none' answer built like the answer to a failed execution
CannotClassifyAsFailure ==
    ("success" :> FALSE) @@ ("error" :> "Query execution failed")
    @@ ("message" :> "Could not understand the question") @@ ("data" :> <<>>)
    @@ ("summary" :> EmptyArgs) @@ ("chart_config" :> <<>>)

CannotClassifyResponse ==
    ("success" :> FALSE) @@ ("error" :> "cannot_classify")
    @@ ("message" :> "Could not understand the question") @@ ("data" :> <<>>)
    @@ ("summary" :> EmptyArgs) @@ ("chart_config" :> <<>>)

FailureResponse(results) ==
    ("success" :> FALSE) @@ ("error" :> results.error)
    @@ ("message" :> "An error occurred while executing the query")
    @@ ("traceback" :> results.traceback) @@ ("data" :> <<>>)
    @@ ("summary" :> EmptyArgs) @@ ("chart_config" :> <<>>)

SuccessResponse(function_name, args, results) ==
    ("success" :> TRUE) @@ ("function_name" :> function_name) @@ ("arguments" :> args)
    @@ ("data" :> results.data) @@ ("row_count" :> results.row_count)
    @@ ("summary" :> calculate_summary_stats(results.data))
    @@ ("chart_config" :> generate_chart_config(results))
    @@ ("message" :> "Found row_count results")

\* lambda_handler: the body of the 400 answer to a request without a question
MissingQuestionResponse ==
    ("success" :> FALSE) @@ ("error" :> "missing_question")
    @@ ("message" :> "Please provide a 'question' parameter")

\* lambda_handler: the body of the 500 answer to any exception
InternalErrorResponse(exception) ==
    ("success" :> FALSE) @@ ("error" :> "internal_error") @@ ("message" :> exception)
    @@ ("traceback" :> "traceback")

(***************************************************************************)
(* Inputs.  A question is a lead followed by at most MaxPhrases of the     *)
(* phrases below, in the order of the table; the phrases are the ones the  *)
(* parsers react to.  A classifier guess is a function name with one of    *)
(* the argument sets.                                                      *)
(***************************************************************************)
MaxPhrases == 2

Todays == {<<2026, 10, 30>>, <<2026, 3, 15>>}

Leads == << <<"projects">>, <<"top", "10", "projects">>, <<"largest", "projects">> >>

Phrases ==
    << <<"with", "tags">>,
       <<"over", "5", "million">>,
       <<"last", "6", "months">>,
       <<"between", "January", "and", "March", "2026">>,
       <<"between", "January", "and", "December", "2026">>,
       <<"Q1", "2026">>,
       <<"in", "2026">>,
       <<"compare", "2027">>,
       <<"for", "TAMU">> >>

RECURSIVE Pick(_, _)
\* the texts made of at most n phrases of index >= from, in table order
Pick(from, n) ==
    {<<>>} \cup
    (IF n = 0 THEN {}
     ELSE UNION {{Phrases[i] \o rest : rest \in Pick(i + 1, n - 1)} :
                 i \in from..Len(Phrases)})

Questions == {Leads[l] \o rest : l \in 1..Len(Leads), rest \in Pick(1, MaxPhrases)}

RailAndTransit == <<"Rail", "and", "Transit">>

\* argument sets tried with every function of the catalog
GenericArgs ==
    << EmptyArgs,
       ("limit" :> 50) @@ ("min_fee" :> Money(3, "million")) @@ ("max_fee" :> Money(6, "million"))
           @@ ("start_date" :> <<2027, 1, 1>>) @@ ("end_date" :> <<2027, 12, 31>>),
       ("time_reference" :> <<"next", "3", "weeks">>) >>

\* guesses with arguments that only some functions take
SpecificGuesses ==
    << [function_name |-> <<"get_projects_by_category">>,
        arguments |-> ("category" :> RailAndTransit)],
       [function_name |-> <<"get_projects_by_category">>,
        arguments |-> ("category" :> <<"Rail">>)],
       [function_name |-> <<"get_largest_by_category">>,
        arguments |-> ("category" :> RailAndTransit)],
       [function_name |-> <<"get_projects_by_tags">>,
        arguments |-> ("tag" :> RailAndTransit)],
       [function_name |-> <<"get_projects_by_tags">>,
        arguments |-> ("tag" :> <<"Rail">>)],
       [function_name |-> <<"get_projects_by_multiple_tags">>,
        arguments |-> ("tags" :> <<RailAndTransit>>)],
       [function_name |-> <<"get_projects_by_multiple_tags">>,
        arguments |-> ("tags" :> << <<"Rail">>, <<"Transit">> >>)],
       [function_name |-> <<"get_largest_projects">>,
        arguments |-> ("client" :> <<"TAMU">>) @@ ("limit" :> 50)],
       [function_name |-> <<"get_projects_by_status">>,
        arguments |-> ("status" :> <<"Winning">>)],
       [function_name |-> <<"compare_opco_revenue">>,
        arguments |-> ("companies" :> << <<"TAMU">> >>)],
       [function_name |-> <<"get_projects_by_date_range">>,
        arguments |-> ("time_reference" :> <<"recently">>)],
       [function_name |-> <<"get_projects_by_date_range">>,
        arguments |-> ("time_reference" :> <<"between", "January", "and", "March", "2026">>)],
       [function_name |-> <<"get_projects_by_date_range">>,
        arguments |-> ("time_reference" :> <<>>)],
       [function_name |-> <<"get_projects_by_combined_filters">>,
        arguments |-> ("size" :> <<"Mega">>) @@ ("tags" :> << <<"Rail">> >>)
                      @@ ("limit" :> 50)],
       [function_name |-> <<"get_projects_by_multiple_tags">>,
        arguments |-> ("tags" :> << <<"Rail">> >>) @@ ("client" :> <<"TAMU">>)],
       [function_name |-> <<"get_projects_by_multiple_tags">>,
        arguments |-> ("tags" :> << <<"Rail">>, <<"Transit">> >>)
                      @@ ("client" :> <<"TAMU">>)],
       [function_name |-> <<"compare_opco_revenue">>,
        arguments |-> ("client" :> <<"TAMU">>)],
       [function_name |-> <<"bogus">>, arguments |-> EmptyArgs],
       [function_name |-> <<"none">>, arguments |-> EmptyArgs],
       [function_name |-> <<>>, arguments |-> EmptyArgs] >>

\* what the classifier call can produce
Replies(n) ==
    IF n = 0 THEN [kind |-> "bad_json", function_name |-> <<>>, arguments |-> EmptyArgs]
    ELSE IF n = -1 THEN [kind |-> "error", function_name |-> <<>>, arguments |-> EmptyArgs]
    ELSE [kind |-> "json", function_name |-> SpecificGuesses[n].function_name,
          arguments |-> SpecificGuesses[n].arguments]

GenericReply(function_name, n) ==
    [kind |-> "json", function_name |-> <<function_name>>, arguments |-> GenericArgs[n]]

\* the query's database outcomes; a row is its "Fee"
Outcomes ==
    {[kind |-> "connect_error", rows |-> <<>>], [kind |-> "execute_error", rows |-> <<>>],
     [kind |-> "fetch_error", rows |-> <<>>], [kind |-> "convert_error", rows |-> <<>>],
     [kind |-> "rows", rows |-> <<>>], [kind |-> "rows", rows |-> <<5>>]}

\* the percentile query's outcomes: failure, or a snapshot <<p20, p40, p60, p80>>
Snapshot == <<1, 2, 3, 4>>

PercentileOutcomes == {<<>>, <<Snapshot>>}

(***************************************************************************)
(* The state machine.                                                      *)
(***************************************************************************)
NoIntent == [function_name |-> <<>>, arguments |-> EmptyArgs, error |-> ""]

NoResult == [raised |-> "", function_name |-> "", arguments |-> EmptyArgs]

NoBuild == [sql |-> <<>>, params |-> <<>>, percentiles |-> <<>>, queried |-> FALSE]

\* calculate_percentiles stamps the snapshot it stores with the time
Stamped(b, stamp, hour) == IF b.queried /\ b.percentiles # <<>> THEN <<hour>> ELSE stamp

\* no caller of the size calculator other than the request, no parser or
\* summary run on its own
Aside ==
    /\ clock = 0
    /\ threads = <<>>
    /\ parsed = <<>>
    /\ summary = <<>>

\* The events lambda_handler is invoked with: a direct invocation or an API
\* Gateway body holding a question ("" when the key is missing or empty),
\* or a body that json.loads cannot parse
Requests ==
    {[kind |-> k, question |-> q] : k \in {"direct", "body"}, q \in Questions \cup {<<>>}}
    \cup {[kind |-> "malformed_body", question |-> <<>>]}

\* a request arrives at a newly constructed QueryEngine
Init ==
    /\ today \in Todays
    /\ question = <<>>
    /\ percentiles = <<>>
    /\ pc = "request"
    /\ classification = NoIntent
    /\ refined = NoResult
    /\ again = NoResult
    /\ built = NoBuild
    /\ calls = <<>>
    /\ connections = 0
    /\ response = <<>>
    /\ calculated_at = <<>>
    /\ last_calculated = <<>>
    /\ Aside

\* lambda_handler up to the call of process_query
Handled(event) ==
    /\ pc = "request"
    /\ question' = event.question
    /\ pc' = IF event.kind = "malformed_body" \/ event.question = <<>>
             THEN "done" ELSE "start"
    /\ response' = IF event.kind = "malformed_body"
                   THEN <<InternalErrorResponse("JSONDecodeError")>>
                   ELSE IF event.question = <<>> THEN <<MissingQuestionResponse>>
                   ELSE response
    /\ UNCHANGED <<today, classification, refined, again, built, percentiles, calls,
                   connections, calculated_at, last_calculated, aside>>

Handle == \E event \in Requests : Handled(event)

\* process_query, step 1: the classifier answers
Classified(reply) ==
    /\ pc = "start"
    /\ classification' = classify_query(reply)
    /\ calls' = Append(calls, "classify_query")
    /\ pc' = "classified"
    /\ UNCHANGED <<today, question, refined, again, built, percentiles, connections,
                   response, calculated_at, last_calculated, aside>>

Classify ==
    \/ \E n \in -1..Len(SpecificGuesses) : Classified(Replies(n))
    \/ \E f \in CatalogKeys, n \in 1..Len(GenericArgs) : Classified(GenericReply(f, n))

IsNone(c) == c.function_name = <<"none">> \/ c.function_name = <<>>

\* process_query: the classifier gave no function
CannotClassify ==
    /\ pc = "classified"
    /\ IsNone(classification)
    /\ response' = <<CannotClassifyResponse>>
    /\ pc' = "done"
    /\ UNCHANGED <<today, question, classification, refined, again, built, percentiles,
                   calls, connections, calculated_at, last_calculated, aside>>

\* process_query, step 2: preprocess_query; an exception leaves process_query
\* and lambda_handler answers
Preprocessed(r) ==
    /\ refined' = r
    /\ pc' = IF r.raised = "" THEN "refined" ELSE "done"
    /\ response' = IF r.raised = "" THEN response ELSE <<InternalErrorResponse(r.raised)>>

Preprocess ==
    /\ pc = "classified"
    /\ ~IsNone(classification)
    /\ Preprocessed(preprocess_query(question, IntentOf(classification), today))
    /\ calls' = Append(calls, "preprocess_query")
    /\ UNCHANGED <<today, question, classification, again, built, percentiles,
                   connections, calculated_at, last_calculated, aside>>

Count(trace, name) == Cardinality({i \in 1..Len(trace) : trace[i] = name})

Responded(e) ==
    /\ built' = e.built
    /\ percentiles' = e.built.percentiles
    /\ calculated_at' = Stamped(e.built, calculated_at, clock)
    /\ last_calculated' = Stamped(e.built, last_calculated, clock)
    /\ calls' = calls \o <<"execute_query">> \o e.trace
    /\ connections' = connections + Count(e.trace, "connect")
                        + Count(e.trace, "calculate_percentiles")
    /\ response' = IF e.results.success
                   THEN <<SuccessResponse(refined.function_name, refined.arguments,
                                          e.results)>>
                   ELSE <<FailureResponse(e.results)>>

\* process_query, steps 3 and 4: execute_query and the response
Execute ==
    /\ pc = "refined"
    /\ \E db \in PercentileOutcomes, outcome \in Outcomes :
         Responded(execute_query(refined.function_name, refined.arguments,
                                 percentiles, db, outcome))
    /\ pc' = "done"
    /\ UNCHANGED <<today, question, classification, refined, again, aside>>

Next == Handle \/ Classify \/ CannotClassify \/ Preprocess \/ Execute

Spec == Init /\ [][Next]_vars

(***************************************************************************)
(* Refinement on its own: preprocess_query applied to a classified         *)
(* question, and applied once more to its own result.                      *)
(***************************************************************************)
InitRefine ==
    /\ today \in Todays
    /\ question \in Questions
    /\ \/ \E n \in 1..Len(SpecificGuesses) :
            /\ ~IsNone(SpecificGuesses[n])
            /\ classification = classify_query(Replies(n))
       \/ \E f \in CatalogKeys, n \in 1..Len(GenericArgs) :
            classification = classify_query(GenericReply(f, n))
    /\ pc = "classified"
    /\ percentiles = <<>>
    /\ refined = NoResult
    /\ again = NoResult
    /\ built = NoBuild
    /\ calls = <<"classify_query">>
    /\ connections = 0
    /\ response = <<>>
    /\ calculated_at = <<>>
    /\ last_calculated = <<>>
    /\ Aside

\* preprocess_query(question, I') for the result I' of the first call
RefineAgain ==
    /\ pc = "refined"
    /\ again' = preprocess_query(question,
                                 [function_name |-> refined.function_name,
                                  arguments |-> refined.arguments], today)
    /\ calls' = Append(calls, "preprocess_query")
    /\ pc' = "again"
    /\ UNCHANGED <<today, question, classification, refined, built, percentiles,
                   connections, response, calculated_at, last_calculated, aside>>

NextRefine == Preprocess \/ RefineAgain

SpecRefine == InitRefine /\ [][NextRefine]_vars

(***************************************************************************)
(* The SQL builder on its own: build_sql_query applied to an Intent.       *)
(***************************************************************************)
MaxListLen == 2

\* a value for an argument, by the type the argument holds
SampleValue(key) ==
    CASE key \in {"year", "year1", "start_year"} -> 2026
      [] key \in {"year2", "end_year"}           -> 2027
      [] key = "quarter"                         -> 1
      [] key = "limit"                           -> 10
      [] key = "min_win"                         -> 50
      [] key = "max_win"                         -> 90
      [] key = "min_fee"                         -> Money(5, "million")
      [] key = "max_fee"                         -> Money(50, "million")
      [] key = "start_date"                      -> <<2026, 1, 1>>
      [] key = "end_date"                        -> <<2026, 3, 31>>
      [] key = "years"                           -> <<2026, 2027>>
      [] key \in {"categories", "companies", "tags"} -> << <<"Rail">>, <<"Transit">> >>
      [] OTHER                                   -> <<key>>

\* every declared parameter of the template supplied
FullArgs(function_name) ==
    [key \in {query_templates(function_name).params[i] :
                i \in 1..Len(query_templates(function_name).params)}
       |-> SampleValue(key)]

Samples(keys) == [key \in keys |-> SampleValue(key)]

\* arguments besides the declared parameters
Extras ==
    << EmptyArgs,
       Samples({"limit", "start_date", "end_date"}),
       Samples({"start_year", "end_year", "status", "max_fee"}),
       ("limit" :> 0) @@ ("max_fee" :> MaxFeeSentinel) @@ ("status" :> <<>>) >>

ScalarFilterKeys ==
    {"size", "status", "company", "state_code", "min_fee", "max_fee", "min_win",
     "max_win", "start_date", "end_date", "limit"}

\* a list of n distinct items
Items(n) == [i \in 1..n |-> <<"item", ToString(i)>>]

\* arguments of the combined-filter call: any of the scalar filters, and
\* category and tag lists of up to MaxListLen items (0: the key is absent)
CombinedArgs(present, ncategories, ntags) ==
    Samples(present)
    @@ (IF ncategories > 0 THEN ("categories" :> Items(ncategories)) ELSE EmptyArgs)
    @@ (IF ntags > 0 THEN ("tags" :> Items(ntags)) ELSE EmptyArgs)

\* arguments that are present but falsy
FalsyArgs ==
    ("size" :> <<>>) @@ ("categories" :> <<>>) @@ ("tags" :> <<>>) @@ ("status" :> <<>>)
    @@ ("min_fee" :> ZeroMoney) @@ ("min_win" :> 0) @@ ("limit" :> 0)
    @@ ("company" :> <<"company">>)

Intent(function_name, args) ==
    [raised |-> "", function_name |-> function_name, arguments |-> args]

InitBuild ==
    /\ today \in Todays
    /\ question = <<"projects">>
    /\ classification = NoIntent
    /\ \/ \E f \in CatalogKeys \cup {"bogus"}, full \in BOOLEAN, e \in 1..Len(Extras) :
            refined = Intent(f, IF full /\ f \in CatalogKeys
                                THEN FullArgs(f) @@ Extras[e] ELSE Extras[e])
       \/ \E present \in SUBSET ScalarFilterKeys,
             ncategories \in 0..MaxListLen, ntags \in 0..MaxListLen :
            refined = Intent("get_projects_by_combined_filters",
                             CombinedArgs(present, ncategories, ntags))
       \/ refined = Intent("get_projects_by_combined_filters", FalsyArgs)
    /\ pc = "refined"
    /\ percentiles \in PercentileOutcomes
    /\ again = NoResult
    /\ built = NoBuild
    /\ calls = <<>>
    /\ connections = 0
    /\ response = <<>>
    /\ calculated_at = (IF percentiles = <<>> THEN <<>> ELSE <<0>>)
    /\ last_calculated = calculated_at
    /\ Aside

Built(b) ==
    /\ built' = b
    /\ percentiles' = b.percentiles
    /\ calculated_at' = Stamped(b, calculated_at, clock)
    /\ last_calculated' = Stamped(b, last_calculated, clock)
    /\ calls' = calls \o <<"build_sql_query">>
                  \o (IF b.queried THEN <<"calculate_percentiles">> ELSE <<>>)
    /\ connections' = connections + (IF b.queried THEN 1 ELSE 0)

\* build_sql_query(function_name, arguments)
Build ==
    /\ pc = "refined"
    /\ \E db \in PercentileOutcomes :
         Built(build_sql_query(refined.function_name, refined.arguments, percentiles, db))
    /\ pc' = "built"
    /\ UNCHANGED <<today, question, classification, refined, again, response, aside>>

NextBuild == Build

SpecBuild == InitBuild /\ [][NextBuild]_vars

(***************************************************************************)
(* The size calculator on its own: the callers of one                      *)
(* ProjectSizeCalculator, interleaved statement by statement, while time   *)
(* passes.  Nothing in the class takes a lock.                             *)
(***************************************************************************)
cache_duration == 24

MaxClock == 36

Callers == {1, 2}

\* snapshots <<p20, p40, p60, p80>> the percentile query can return
Snapshots == {Snapshot, <<2, 2, 5, 5>>}

SizeOutcomes == {<<>>} \cup {<<snapshot>> : snapshot \in Snapshots}

\* fee arguments: None, or a number
Fees == {<<>>, <<0>>, <<1>>, <<3>>, <<5>>}

get_size_category_descending(stored, fee) ==
    IF stored = <<>> \/ fee = <<>> THEN "unknown"
    ELSE IF fee[1] <= 0 THEN "unknown"
    ELSE IF fee[1] < stored[1][1] THEN "Mega"
    ELSE IF fee[1] < stored[1][2] THEN "Large"
    ELSE IF fee[1] < stored[1][3] THEN "Medium"
    ELSE IF fee[1] < stored[1][4] THEN "Small"
    ELSE "Micro"

\* get_size_category once self.percentiles has been read
get_size_category(stored, fee) ==
    IF stored = <<>> \/ fee = <<>> THEN "unknown"
    ELSE IF fee[1] <= 0 THEN "unknown"
    ELSE IF fee[1] < stored[1][1] THEN "Micro"
    ELSE IF fee[1] < stored[1][2] THEN "Small"
    ELSE IF fee[1] < stored[1][3] THEN "Medium"
    ELSE IF fee[1] < stored[1][4] THEN "Large"
    ELSE "Mega"

\* a caller: the method it is in, its position, its arguments, and what it
\* has seen: got is what calculate_percentiles returned, used the snapshot
\* the answer was computed from, age that snapshot's age in hours
Idle ==
    [op |-> "", pc |-> "idle", force |-> FALSE, fee |-> <<>>, queried |-> FALSE,
     failed |-> FALSE, got |-> <<>>, used |-> <<>>, ret |-> "", age |-> <<>>]

InitSize ==
    /\ today \in Todays
    /\ question = <<>>
    /\ pc = "idle"
    /\ classification = NoIntent
    /\ refined = NoResult
    /\ again = NoResult
    /\ built = NoBuild
    /\ calls = <<>>
    /\ connections = 0
    /\ response = <<>>
    /\ percentiles = <<>>
    /\ calculated_at = <<>>
    /\ last_calculated = <<>>
    /\ clock = 0
    /\ threads = [t \in Callers |-> Idle]
    /\ parsed = <<>>
    /\ summary = <<>>

request == <<today, pc, question, classification, refined, again, built, calls,
             connections, response, parsed, summary>>

\* a method is called, up to its first test of self.percentiles
Enter(t, op, force, fee) ==
    /\ threads[t].pc \in {"idle", "returned"}
    /\ threads' = [threads EXCEPT ![t] =
                     [Idle EXCEPT !.op = op, !.force = force, !.fee = fee,
                                  !.pc = IF op = "calculate_percentiles" \/ percentiles = <<>>
                                         THEN "check" ELSE "use"]]
    /\ UNCHANGED <<request, percentiles, calculated_at, last_calculated, clock>>

Call ==
    \E t \in Callers :
        \/ \E force \in BOOLEAN : Enter(t, "calculate_percentiles", force, <<>>)
        \/ Enter(t, "get_sql_case_statement", FALSE, <<>>)
        \/ \E fee \in Fees : Enter(t, "get_size_category", FALSE, fee)

\* calculate_percentiles returns `value` to the method that called it
Returning(me, value) ==
    IF me.op = "calculate_percentiles"
    THEN [me EXCEPT !.pc = "returned", !.got = value]
    ELSE [me EXCEPT !.pc = "use"]

\* the cache test of calculate_percentiles; the two conditions are read one
\* after the other, and neither field goes back to None once it is set
Cached(force, stored, stamp, hour) ==
    /\ ~force
    /\ stored # <<>>
    /\ stamp # <<>>
    /\ hour - stamp[1] < cache_duration

\* the test alone: on a hit the caller goes on to print, and reads
\* self.percentiles for its return value only after that
Checked(t, me) ==
    /\ me.pc = "check"
    /\ threads' = [threads EXCEPT ![t] =
                     IF Cached(me.force, percentiles, last_calculated, clock)
                     THEN [me EXCEPT !.pc = "return"]
                     ELSE [me EXCEPT !.pc = "connect"]]
    /\ UNCHANGED <<request, percentiles, calculated_at, last_calculated, clock>>

Check == \E t \in Callers : Checked(t, threads[t])

\* the percentile query is sent
Queried(t, me) ==
    /\ me.pc = "connect"
    /\ threads' = [threads EXCEPT ![t] = [me EXCEPT !.pc = "querying", !.queried = TRUE]]
    /\ UNCHANGED <<request, percentiles, calculated_at, last_calculated, clock>>

Query == \E t \in Callers : Queried(t, threads[t])

\* the percentile query fails or answers, and the answer is stored
Fetched(t, me, db) ==
    /\ me.pc = "querying"
    /\ percentiles' = calculate_percentiles(percentiles, db)
    /\ calculated_at' = IF db # <<>> THEN <<clock>> ELSE calculated_at
    /\ threads' = [threads EXCEPT ![t] =
                     IF db # <<>> THEN [me EXCEPT !.pc = "stamp"]
                     ELSE Returning([me EXCEPT !.failed = TRUE], <<>>)]
    /\ UNCHANGED <<request, last_calculated, clock>>

Fetch == \E t \in Callers, db \in SizeOutcomes : Fetched(t, threads[t], db)

\* last_calculated is set; the caller goes on to print the tiers
Stamp ==
    \E t \in Callers :
        /\ threads[t].pc = "stamp"
        /\ last_calculated' = <<clock>>
        /\ threads' = [threads EXCEPT ![t] = [threads[t] EXCEPT !.pc = "return"]]
        /\ UNCHANGED <<request, percentiles, calculated_at, clock>>

\* return self.percentiles, after the cache hit or after the stamp: the field
\* is read now, whatever another caller has stored in the meantime
Return ==
    \E t \in Callers :
        /\ threads[t].pc = "return"
        /\ threads' = [threads EXCEPT ![t] = Returning(threads[t], percentiles)]
        /\ UNCHANGED <<request, percentiles, calculated_at, last_calculated, clock>>

\* the rest of get_sql_case_statement or get_size_category
Answer(me, stored, stamp, hour) ==
    IF me.op = "get_sql_case_statement"
    THEN [me EXCEPT !.pc = "returned", !.used = stored,
                    !.ret = SizeCaseText(stored).text,
                    !.age = IF stored = <<>> THEN <<>> ELSE <<hour - stamp[1]>>]
    ELSE IF get_size_category(stored, me.fee) = "unknown"
    THEN [me EXCEPT !.pc = "returned", !.ret = "unknown"]
    ELSE [me EXCEPT !.pc = "returned", !.used = stored,
                    !.ret = get_size_category(stored, me.fee),
                    !.age = <<hour - stamp[1]>>]

Use ==
    \E t \in Callers :
        /\ threads[t].pc = "use"
        /\ threads' = [threads EXCEPT ![t] =
                         Answer(threads[t], percentiles, calculated_at, clock)]
        /\ UNCHANGED <<request, percentiles, calculated_at, last_calculated, clock>>

Tick ==
    /\ clock + cache_duration \div 2 <= MaxClock
    /\ clock' = clock + cache_duration \div 2
    /\ UNCHANGED <<request, percentiles, calculated_at, last_calculated, threads>>

NextSize == Call \/ Check \/ Query \/ Fetch \/ Stamp \/ Return \/ Use \/ Tick

SpecSize == InitSize /\ [][NextSize]_vars

(***************************************************************************)
(* The date parsers on their own: a time phrase is handed to               *)
(* SemanticTimeParser.parse, DateCalculator.parse_relative_date and        *)
(* DateCalculator.parse_month_range, and to preprocess_query, as the       *)
(* question and, in one of the two Intents, as its time_reference.         *)
(***************************************************************************)
TimePhrases ==
    { <<"soon">>, <<"near", "future">>, <<"short", "term">>, <<"medium", "term">>,
      <<"long", "term">>, <<"immediately">>, <<"recently">>, <<"shortly">>,
      <<"little", "while">>,
      <<"last", "6", "months">>, <<"next", "3", "weeks">>, <<"ten", "months">>,
      <<"last", "quarter">>, <<"next", "year">>,
      <<"this", "quarter">>, <<"this", "year">>, <<"Q1", "2026">>, <<"in", "2026">>,
      <<"between", "January", "and", "March", "2026">>,
      <<"between", "January", "and", "December", "2026">>,
      <<"between", "March", "and", "January", "2026">>,
      <<"between", "March", "and", "January", "1999">> }

InitParse ==
    /\ today \in Todays
    /\ question \in TimePhrases
    /\ \E arguments \in {EmptyArgs, "time_reference" :> question} :
         classification =
             classify_query([kind |-> "json",
                             function_name |-> <<"get_projects_by_date_range">>,
                             arguments |-> arguments])
    /\ pc = "classified"
    /\ percentiles = <<>>
    /\ refined = NoResult
    /\ again = NoResult
    /\ built = NoBuild
    /\ calls = <<"classify_query">>
    /\ connections = 0
    /\ response = <<>>
    /\ calculated_at = <<>>
    /\ last_calculated = <<>>
    /\ Aside

\* the three parsers applied to the phrase
Parsed(text, now) ==
    [semantic |-> SemanticTimeParser_parse(text, now),
     relative |-> parse_relative_date(text, now),
     months   |-> parse_month_range(text)]

Parse ==
    /\ parsed = <<>>
    /\ parsed' = <<Parsed(question, today)>>
    /\ UNCHANGED <<today, pc, question, classification, refined, again, built, percentiles,
                   calls, connections, response, calculated_at, last_calculated,
                   clock, threads, summary>>

NextParse == Parse \/ Preprocess

SpecParse == InitParse /\ [][NextParse]_vars

(***************************************************************************)
(* The summary statistics on their own: calculate_summary_stats applied to *)
(* the rows of a result.                                                   *)
(***************************************************************************)
MaxRows == 4

\* the "Fee" of a row; 0 stands for a row whose fee is missing or falsy
RowFees == 0..3

RECURSIVE Rows(_)
Rows(n) == IF n = 0 THEN {<<>>} ELSE {Append(d, fee) : d \in Rows(n - 1), fee \in RowFees}

InitStats ==
    /\ today \in Todays
    /\ question = <<>>
    /\ pc = "idle"
    /\ classification = NoIntent
    /\ refined = NoResult
    /\ again = NoResult
    /\ built = NoBuild
    /\ calls = <<>>
    /\ connections = 0
    /\ response = <<>>
    /\ percentiles = <<>>
    /\ calculated_at = <<>>
    /\ last_calculated = <<>>
    /\ clock = 0
    /\ threads = <<>>
    /\ parsed = <<>>
    /\ \E n \in 0..MaxRows :
         \E data \in Rows(n) :
             summary = <<[data |-> data, done |-> FALSE, stats |-> EmptyArgs]>>

Summarise ==
    /\ ~summary[1].done
    /\ summary' = <<[data |-> summary[1].data, done |-> TRUE,
                     stats |-> calculate_summary_stats(summary[1].data)]>>
    /\ UNCHANGED <<today, pc, question, classification, refined, again, built, percentiles,
                   calls, connections, response, calculated_at, last_calculated,
                   clock, threads, parsed>>

NextStats == Summarise

SpecStats == InitStats /\ [][NextStats]_vars

(***************************************************************************)
(* Refinement of fee questions: preprocess_query applied to questions      *)
(* whose only phrase is a fee range.                                       *)
(***************************************************************************)
FeeLeads == {<<"projects">>, <<"top", "10", "projects">>}

FeePhrases ==
    { <<"over", "5", "million">>, <<"above", "10">>,
      <<"under", "5", "million">>, <<"under", "0", "million">>,
      <<"between", "10", "and", "50", "million">>,
      <<"between", "0", "and", "0", "million">>,
      <<"10", "to", "50", "million">>,
      <<"over", "5", "million", "for", "TAMU">> }

InitFee ==
    /\ today \in Todays
    /\ \E lead \in FeeLeads, phrase \in FeePhrases : question = lead \o phrase
    /\ \/ \E n \in 1..Len(SpecificGuesses) :
            /\ ~IsNone(SpecificGuesses[n])
            /\ classification = classify_query(Replies(n))
       \/ \E f \in CatalogKeys, n \in 1..Len(GenericArgs) :
            classification = classify_query(GenericReply(f, n))
    /\ pc = "classified"
    /\ percentiles = <<>>
    /\ refined = NoResult
    /\ again = NoResult
    /\ built = NoBuild
    /\ calls = <<"classify_query">>
    /\ connections = 0
    /\ response = <<>>
    /\ calculated_at = <<>>
    /\ last_calculated = <<>>
    /\ Aside

NextFee == Preprocess

SpecFee == InitFee /\ [][NextFee]_vars

(***************************************************************************)
(* Properties.                                                             *)
(***************************************************************************)

\* C1: preprocess_query is idempotent: for every question and every Intent
\* for which it returns I', applying it to the same question and I' returns
\* an Intent with the same function_name and the same arguments.
C1_Idempotent ==
    pc = "again" =>
        /\ again.raised = ""
        /\ again.function_name = refined.function_name
        /\ again.arguments = refined.arguments

\* C2: when the classifier yields 'none' (or no function name), which
\* includes every case where the classifier call raised or its output could
\* not be parsed, nothing but the classifier is called (no preprocess_query,
\* no build_sql_query, no execute_query, no connection) and the response is
\* success=false, error='cannot_classify', data=[], summary={},
\* chart_config=null.
C2_NoneIsTerminal ==
    (calls # <<>> /\ (classification.error # ""
                      \/ classification.function_name \in {<<"none">>, <<>>})) =>
        /\ classification.function_name \in {<<"none">>, <<>>}
        /\ calls = <<"classify_query">>
        /\ connections = 0
        /\ built = NoBuild
        /\ pc = "done" =>
             /\ Len(response) = 1
             /\ DOMAIN response[1] =
                  {"success", "error", "message", "data", "summary", "chart_config"}
             /\ response[1]["success"] = FALSE
             /\ response[1]["error"] = "cannot_classify"
             /\ response[1]["data"] = <<>>
             /\ response[1]["summary"] = EmptyArgs
             /\ response[1]["chart_config"] = <<>>

\* the classifier raised and process_query has answered
C2_Witness ==
    /\ pc = "done"
    /\ classification.error = "exception"
    /\ response # <<>>

\* C3: for a function name that is not a key of query_templates,
\* build_sql_query returns (None, None) and execute_query returns
\* success=false with error 'Unknown function', without opening a database
\* connection and without executing any SQL.
C3_UnknownFunction ==
    (pc = "done" /\ Count(calls, "execute_query") = 1
     /\ refined.function_name \notin CatalogKeys) =>
        /\ built.sql = <<>>
        /\ built.params = <<>>
        /\ response[1]["success"] = FALSE
        /\ response[1]["error"] = "Unknown function"
        /\ connections = 0
        /\ Count(calls, "connect") = 0
        /\ Count(calls, "cursor.execute") = 0
        /\ Count(calls, "calculate_percentiles") = 0

\* execute_query has answered for the name "bogus"
C3_Witness ==
    /\ pc = "done"
    /\ refined.function_name = "bogus"
    /\ Count(calls, "execute_query") = 1
    /\ response # <<>>

\* the words of `phrase` occur in q, one after the other
HasPhrase(q, phrase) ==
    \E i \in 1..(Len(q) - Len(phrase) + 1) : SubSeq(q, i, i + Len(phrase) - 1) = phrase

Last6Months == <<"last", "6", "months">>

\* preprocess_query has been called for the question
Preprocessing == Count(calls, "preprocess_query") >= 1

\* C4: for a question containing 'last 6 months' and no ranking word, and
\* any classifier guess other than 'none' (any catalog function, any
\* arguments), preprocess_query leaves function_name =
\* get_projects_by_date_range, end_date = today and start_date = today - 180
\* days.
C4_Last6MonthsAsStated ==
    (Preprocessing /\ HasPhrase(question, Last6Months)
     /\ ~is_ranking_query(LowerText(question))) =>
        /\ refined.raised = ""
        /\ refined.function_name = "get_projects_by_date_range"
        /\ Has(refined.arguments, "start_date") /\ Has(refined.arguments, "end_date")
        /\ refined.arguments["end_date"] = today
        /\ refined.arguments["start_date"] = AddDays(today, -180)

Top10Over5Million == <<"top", "10", "projects", "over", "5", "million">>

\* C5 as stated: for 'top 10 projects over 5 million' and any classifier
\* guess, preprocess_query leaves limit = 10, min_fee = 5,000,000 and
\* function_name get_projects_by_fee_range or get_largest_projects.
C5_TopOverAsStated ==
    (Preprocessing /\ question = Top10Over5Million) =>
        /\ refined.raised = ""
        /\ Has(refined.arguments, "limit") /\ refined.arguments["limit"] = 10
        /\ Has(refined.arguments, "min_fee")
        /\ refined.arguments["min_fee"] = <<5, 0>>
        /\ refined.function_name \in {"get_projects_by_fee_range", "get_largest_projects"}

\* the number of items of the classifier's tags list
TagCount(args) == IF Has(args, "tags") THEN Len(args["tags"]) ELSE 0

\* the guesses whose arguments an earlier pass replaces: a multi-tag call
\* with exactly one tag, a company comparison naming no company
ArgumentsReplaced(given) ==
    \/ /\ given.function_name = <<"get_projects_by_multiple_tags">>
       /\ TagCount(given.arguments) = 1
    \/ /\ given.function_name = <<"compare_opco_revenue">>
       /\ (Has(given.arguments, "companies") => given.arguments["companies"] = <<>>)

\* the function 'top 10 projects over 5 million' ends with, by the guess
TopOverFunction(given) ==
    IF given.function_name \in {<<"get_largest_by_tags">>,
                                <<"get_projects_by_combined_filters">>}
    THEN given.function_name[1]
    ELSE IF /\ given.function_name = <<"get_projects_by_multiple_tags">>
            /\ TagCount(given.arguments) # 1
    THEN "get_projects_by_multiple_tags"
    ELSE IF Has(given.arguments, "client") /\ ~ArgumentsReplaced(given)
    THEN "get_projects_by_client_and_fee_range"
    ELSE "get_projects_by_fee_range"

\* C5, amended: for 'top 10 projects over 5 million' and any guess other
\* than 'none', preprocess_query returns with limit = 10, min_fee =
\* 5,000,000 and max_fee = the 999,999,999,999 sentinel.  A guess of
\* get_largest_by_tags or get_projects_by_combined_filters is kept, and so
\* is a guess of get_projects_by_multiple_tags unless its tags list holds
\* exactly one item; any other guess becomes
\* get_projects_by_client_and_fee_range when the arguments reaching the fee
\* pass hold 'client' (the guess carried it and no earlier pass replaced the
\* arguments), and get_projects_by_fee_range otherwise.
C5_TopOver ==
    (Preprocessing /\ question = Top10Over5Million) =>
        /\ refined.raised = ""
        /\ Has(refined.arguments, "limit") /\ refined.arguments["limit"] = 10
        /\ Has(refined.arguments, "min_fee") /\ Has(refined.arguments, "max_fee")
        /\ refined.arguments["min_fee"] = <<5, 0>>
        /\ refined.arguments["max_fee"] = MaxFeeSentinel
        /\ refined.function_name = TopOverFunction(classification)

\* the question refined from a protected guess
C5_Witness ==
    /\ pc = "refined"
    /\ question = Top10Over5Million
    /\ classification.function_name = <<"get_largest_by_tags">>
    /\ refined.function_name = "get_largest_by_tags"
    /\ refined.arguments["limit"] = 10
    /\ refined.arguments["min_fee"] = <<5, 0>>

NumericKeys == {"limit", "min_fee", "max_fee", "start_date", "end_date"}

\* what a second classifier output may hold for the numeric keys
NumericVariants ==
    {EmptyArgs,
     GenericArgs[2],
     ("limit" :> 7) @@ ("min_fee" :> <<1, 0>>) @@ ("max_fee" :> <<2, 0>>)
         @@ ("start_date" :> <<2025, 5, 5>>) @@ ("end_date" :> <<2025, 6, 6>>),
     ("limit" :> 7) @@ ("end_date" :> <<2025, 6, 6>>)}

\* the classifier output c with its numeric arguments replaced by `variant`
Twin(c, variant) ==
    [function_name |-> c.function_name[1],
     arguments |-> variant @@ PopAll(c.arguments, NumericKeys)]

\* the values args holds for the given keys
Part(args, keys) == [k \in (DOMAIN args) \cap keys |-> args[k]]

SamePart(r, t, keys) == Part(r.arguments, keys) = Part(t.arguments, keys)

\* r and t are results that agree on all the numeric keys
SameNumbers(r, t) == t.raised = "" /\ SamePart(r, t, NumericKeys)

\* r and t, results for question q from classifier output c and a twin of
\* it, agree on the function and on the numeric keys that q decides
SameDecided(q, c, now, r, t) ==
    /\ t.raised = ""
    /\ t.function_name = r.function_name
    /\ parse_limit(q) \notin {<<>>, <<0>>} => SamePart(r, t, {"limit"})
    /\ parse_fee_range(q) # <<>> => SamePart(r, t, {"min_fee", "max_fee"})
    /\ (\/ parse_month_range(q) # <<>>
        \/ parse_relative_date(q, now) # <<>>
        \/ /\ Has(c.arguments, "time_reference")
           /\ SemanticTimeParser_parse(c.arguments["time_reference"], now) # <<>>) =>
         SamePart(r, t, {"start_date", "end_date"})

SameOutcome(q, c, now, r, t) ==
    IF r.raised # "" THEN t.raised = r.raised ELSE SameDecided(q, c, now, r, t)

JanuaryToMarch == <<"between", "January", "and", "March", "2026">>

JanuaryToDecember == <<"between", "January", "and", "December", "2026">>

\* C7: for a question containing 'between <Month> and <Month> <yyyy>' (and
\* no other date phrase), preprocess_query returns normally whether or not
\* the classifier supplied a time_reference, with start_date 2026-01-01 and
\* end_date 2026-03-31 for 'between January and March 2026', and start_date
\* 2026-01-01 and end_date 2026-12-31 for 'between January and December
\* 2026'.
C7_MonthRange ==
    \A range \in {<<JanuaryToMarch, <<2026, 3, 31>> >>,
                  <<JanuaryToDecember, <<2026, 12, 31>> >>} :
        (pc \in {"refined", "done"} /\ question = <<"projects">> \o range[1]) =>
            /\ refined.raised = ""
            /\ Has(refined.arguments, "start_date") /\ Has(refined.arguments, "end_date")
            /\ refined.arguments["start_date"] = <<2026, 1, 1>>
            /\ refined.arguments["end_date"] = range[2]

Combined == "get_projects_by_combined_filters"

\* the SQL text and the parameter tuple of the last build ("" and () for None)
BuiltSql == IF built.sql = <<>> THEN <<>> ELSE built.sql[1]

BuiltParams == IF built.params = <<>> THEN <<>> ELSE built.params[1]

\* the combined-filter call has been built
CombinedBuilt == pc = "built" /\ refined.function_name = Combined

\* C8 as stated: on the combined-filter path no value taken from the
\* arguments (size, categories, tags, status, company, state_code, min_fee,
\* max_fee, min_win, max_win, start_date, end_date, limit) becomes part of
\* the SQL text.
C8_NoValueInTextAsStated ==
    CombinedBuilt => \A i \in 1..Len(BuiltSql) : BuiltSql[i].key = ""

\* C8, amended: on the combined-filter path the only argument value that
\* becomes part of the SQL text is limit, formatted as an integer after the
\* word LIMIT; every other present filter contributes fixed text with %s
\* placeholders, as many as there are bound parameters.
C8_NoValueInText ==
    CombinedBuilt =>
        /\ \A i \in 1..Len(BuiltSql) :
             BuiltSql[i].key # "" =>
                /\ BuiltSql[i].key = "limit"
                /\ BuiltSql[i].val = refined.arguments["limit"]
                /\ BuiltSql[i].val \in Int
                /\ i > 1 /\ BuiltSql[i - 1] = Fixed("LIMIT")
        /\ Truthy(refined.arguments, "limit") <=>
             \E i \in 1..Len(BuiltSql) : BuiltSql[i].key = "limit"
        /\ Cardinality({i \in 1..Len(BuiltSql) : BuiltSql[i] = Placeholder})
             = Len(BuiltParams)

\* a combined-filter call with a status, a company and a limit
C8_Witness ==
    /\ CombinedBuilt
    /\ Truthy(refined.arguments, "status")
    /\ Truthy(refined.arguments, "company")
    /\ Truthy(refined.arguments, "limit")
    /\ \E i \in 1..Len(BuiltSql) : BuiltSql[i] = Interpolated("limit", 10)
    /\ Len(BuiltParams) >= 2

\* the declared parameters of the function that was built
Declared == query_templates(refined.function_name).params

\* C9: for every catalog template other than the combined-filter one, when
\* all declared arguments are supplied, the parameter tuple of
\* build_sql_query has as many entries as the template declares params (a
\* template that declares none gives None), and entry i is the value of the
\* i-th declared param.
C9_DeclaredParams ==
    (pc = "built" /\ refined.function_name \in CatalogKeys \ {Combined}
     /\ \A i \in 1..Len(Declared) : Has(refined.arguments, Declared[i])) =>
        /\ Len(BuiltParams) = Len(Declared)
        /\ built.params = <<>> <=> Declared = <<>>
        /\ \A i \in 1..Len(Declared) : BuiltParams[i].v = refined.arguments[Declared[i]]

\* the client-and-fee-range call built with its three arguments
C9_Witness ==
    /\ pc = "built"
    /\ refined.function_name = "get_projects_by_client_and_fee_range"
    /\ \A i \in 1..Len(Declared) : Has(refined.arguments, Declared[i])
    /\ Len(Declared) = 3
    /\ Len(BuiltParams) = 3

\* 1 when the argument is present and truthy
One(key) == IF Truthy(refined.arguments, key) THEN 1 ELSE 0

\* 1 when either argument is
Either(key1, key2) ==
    IF Truthy(refined.arguments, key1) \/ Truthy(refined.arguments, key2) THEN 1 ELSE 0

\* C10 as stated: for the combined-filter template the number of bound
\* parameters equals the number of filters (size, categories-list,
\* tags-list, status, company, state, fee-range, win-rate-range, date-range,
\* limit) present in the arguments.
C10_ParamsPerFilterAsStated ==
    CombinedBuilt =>
        Len(BuiltParams) =
            One("size") + One("categories") + One("tags") + One("status")
            + One("company") + One("state_code") + Either("min_fee", "max_fee")
            + Either("min_win", "max_win") + Either("start_date", "end_date")
            + One("limit")

\* C10, amended: for the combined-filter template the number of bound
\* parameters is one for each of size, status, company and state_code that
\* is present, one for each item of the categories list and of the tags
\* list, and one for each of min_fee, max_fee, min_win, max_win, start_date
\* and end_date that is present; limit binds none.
C10_ParamsPerFilter ==
    CombinedBuilt =>
        Len(BuiltParams) =
            One("size") + Len(ListArg(refined.arguments, "categories"))
            + Len(ListArg(refined.arguments, "tags")) + One("status")
            + One("company") + One("state_code") + One("min_fee") + One("max_fee")
            + One("min_win") + One("max_win") + One("start_date") + One("end_date")

\* two categories, a fee range and a limit: four parameters for three filters
C10_Witness ==
    /\ CombinedBuilt
    /\ Len(ListArg(refined.arguments, "categories")) = 2
    /\ ListArg(refined.arguments, "tags") = <<>>
    /\ DOMAIN refined.arguments = {"categories", "min_fee", "max_fee", "limit"}
    /\ Len(BuiltParams) = 4

\* C11: every failure response produced for a request (unclassifiable
\* question, unknown function, query execution failure, missing or empty
\* question, malformed request body) has the same envelope: success=false
\* with the fields error, message, data=[], summary={} and a null chart
\* config.
C11_FailureEnvelope ==
    (pc = "done" /\ response # <<>> /\ response[1]["success"] = FALSE) =>
        /\ {"error", "message", "data", "summary", "chart_config"}
             \subseteq DOMAIN response[1]
        /\ response[1]["data"] = <<>>
        /\ response[1]["summary"] = EmptyArgs
        /\ response[1]["chart_config"] = <<>>

\* the callers that have an answer computed from a percentile snapshot
Answered(t) ==
    /\ threads[t].pc = "returned"
    /\ threads[t].op \in {"get_sql_case_statement", "get_size_category"}
    /\ threads[t].used # <<>>

\* C12: the percentile snapshot has a 24-hour time to live: no
\* get_sql_case_statement or get_size_category answer is computed from a
\* snapshot that is 24 hours old or older.
C12_FreshSnapshot ==
    \A t \in Callers :
        Answered(t) => threads[t].age[1] < cache_duration

\* the callers whose percentile query is in flight
InFlight == {t \in Callers : threads[t].pc = "querying"}

\* C13: a failed percentile refresh raises nothing and leaves the stored
\* percentiles and last_calculated exactly as they were, and
\* get_sql_case_statement still returns an expression, from the previous
\* snapshot or from the fixed thresholds.
C13_FailedRefresh ==
    /\ [](\A t \in Callers :
            (threads[t].pc = "returned" /\ threads[t].op = "get_sql_case_statement") =>
                /\ threads[t].ret = SizeCaseText(threads[t].used).text
                /\ threads[t].failed => threads[t].used \in {<<>>} \cup SizeOutcomes)
    /\ [][\A t \in Callers :
            (t \in InFlight /\ threads'[t].failed) =>
                /\ percentiles' = percentiles
                /\ calculated_at' = calculated_at
                /\ last_calculated' = last_calculated
                /\ threads'[t].pc \in {"returned", "use"}
                /\ threads'[t].got = <<>>]_vars

C13_Witness ==
    \E t \in Callers :
        /\ threads[t].pc = "returned"
        /\ threads[t].op = "calculate_percentiles"
        /\ threads[t].failed
        /\ percentiles # <<>>
        /\ last_calculated # <<>>

\* C14: a refresh is single-flight: with two callers on the same
\* calculator, at most one percentile query is in flight at a time.
C14_SingleFlight == Cardinality(InFlight) <= 1

Rank(category) ==
    CASE category = "Micro" -> 1
      [] category = "Small" -> 2
      [] category = "Medium" -> 3
      [] category = "Large" -> 4
      [] category = "Mega" -> 5

Sized(t) ==
    /\ threads[t].pc = "returned"
    /\ threads[t].op = "get_size_category"
    /\ threads[t].used # <<>>

\* C15: the size tier is monotonic in the fee: for two positive fees
\* f1 < f2 categorised against the same snapshot p20 <= p40 <= p60 <= p80,
\* the category of f1 never ranks above the category of f2
\* (Micro < Small < Medium < Large < Mega).
C15_Monotonic ==
    \A a, b \in Callers :
        (/\ Sized(a)
         /\ Sized(b)
         /\ threads[a].used = threads[b].used
         /\ threads[a].fee[1] < threads[b].fee[1]) =>
            Rank(threads[a].ret) <= Rank(threads[b].ret)

C15_Witness ==
    \E a, b \in Callers :
        /\ Sized(a)
        /\ Sized(b)
        /\ threads[a].used = threads[b].used
        /\ threads[a].fee[1] < threads[b].fee[1]
        /\ Rank(threads[a].ret) < Rank(threads[b].ret)

\* a range that is None, or has its start on or before its end
Ordered(range) == range = <<>> \/ DateLeq(range[1], range[2])

\* C16: every (start, end) returned by SemanticTimeParser.parse,
\* DateCalculator.parse_relative_date and DateCalculator.parse_month_range,
\* and every start_date / end_date pair preprocess_query writes, has
\* start <= end, for every phrase that matches.
C16_StartBeforeEnd ==
    /\ parsed # <<>> =>
          /\ Ordered(parsed[1].semantic)
          /\ Ordered(parsed[1].relative)
          /\ Ordered(parsed[1].months)
    /\ (/\ pc = "refined"
        /\ Has(refined.arguments, "start_date")
        /\ Has(refined.arguments, "end_date")) =>
          DateLeq(refined.arguments["start_date"], refined.arguments["end_date"])

\* the entries of the vague table that the phrase contains
VagueEntries(text) == {n \in 1..Len(vague_mappings) : VagueIn(LowerText(text), n)}

NoNumber(text) == \A i \in 1..Len(text) : TrailingInt(Lower(text[i])) < 0 /\ text[i] # "ten"

\* C17: for a phrase that contains an entry of the vague table and no
\* explicit number, SemanticTimeParser.parse returns
\* (today + start offset, today + end offset) with the offsets of the table
\* ('near future': today .. today + 180, 'recently': today - 90 .. today).
C17_VagueOffsets ==
    (parsed # <<>> /\ VagueEntries(question) # {} /\ NoNumber(question)) =>
        \E n \in VagueEntries(question) :
            parsed[1].semantic = <<AddDays(today, vague_mappings[n][3]),
                                   AddDays(today, vague_mappings[n][4])>>

TagFunctions ==
    {"get_projects_by_tags", "get_largest_by_tags", "get_projects_by_multiple_tags"}

\* preprocess_query has run on a question whose only phrase is the tag
\* trigger, for a category-oriented guess of the classifier
TagQuestion ==
    /\ pc # "classified"
    /\ question \in {Leads[l] \o <<"with", "tags">> : l \in 1..Len(Leads)}
    /\ classification.function_name \in {<<"get_largest_by_category">>,
                                         <<"get_projects_by_category">>}

Rewritten(r, tags, ranked) ==
    /\ r.raised = ""
    /\ r.function_name \in TagFunctions
    /\ Len(tags) > 1 =>
          /\ r.function_name = "get_projects_by_multiple_tags"
          /\ Len(tags) <= MaxItems
          /\ Has(r.arguments, "tags")
          /\ r.arguments["tags"] = tags
    /\ Len(tags) <= 1 =>
          r.function_name = (IF ranked THEN "get_largest_by_tags" ELSE "get_projects_by_tags")

\* C18: when the question has a tag trigger word and no category trigger
\* word and the classifier's function is get_largest_by_category or
\* get_projects_by_category, preprocess_query rewrites the call to its tag
\* equivalent for every category value, a missing or empty one included:
\* get_projects_by_multiple_tags with the parsed tags (at most 5) for more
\* than one item, otherwise the single-tag call, get_largest_by_tags when a
\* ranking trigger word is present and get_projects_by_tags when not.
C18_TagRewrite ==
    TagQuestion =>
        Rewritten(refined, parse_multiple_items(GetText(classification.arguments, "category")),
                  is_ranking_query(LowerText(question)))

\* the fees of the summarised rows, once the statistics are computed
SummaryFees == IF summary[1].done THEN FeesOf(summary[1].data) ELSE <<>>

\* how many of the fees are below, or not above, a value
Below(fees, v) == Cardinality({i \in 1..Len(fees) : fees[i] < v})

NotAbove(fees, v) == Cardinality({i \in 1..Len(fees) : fees[i] <= v})

\* v is the element at the 0-based index k of the fees sorted ascending
AtSortedIndex(fees, k, v) ==
    /\ \E i \in 1..Len(fees) : fees[i] = v
    /\ Below(fees, v) <= k
    /\ k < NotAbove(fees, v)

\* C19 as stated: median_fee is the lower-middle element of the sorted
\* fees, the element at the 0-based index (n - 1) div 2.
C19_MedianAsStated ==
    SummaryFees # <<>> =>
        AtSortedIndex(SummaryFees, (Len(SummaryFees) - 1) \div 2,
                      summary[1].stats["median_fee"])

\* C19: for n >= 1 fees, median_fee is the element at the 0-based index
\* n div 2 of the fees sorted ascending: the middle element for an odd n,
\* the upper of the two middle elements for an even n.
C19_Median ==
    SummaryFees # <<>> =>
        /\ Has(summary[1].stats, "median_fee")
        /\ AtSortedIndex(SummaryFees, Len(SummaryFees) \div 2,
                         summary[1].stats["median_fee"])

C19_Witness ==
    /\ summary # <<>>
    /\ Len(SummaryFees) = 4
    /\ summary[1].data = <<3, 1, 2, 1>>
    /\ summary[1].stats["median_fee"] = 2

\* preprocess_query has been called for a question whose only date phrase
\* is a month range, the classifier's function being fn
MonthQuestion(fn) ==
    /\ Preprocessing
    /\ question \in {<<"projects">> \o JanuaryToMarch, <<"projects">> \o JanuaryToDecember}
    /\ classification.function_name = <<fn>>

\* the classifier's arguments with only start_date and end_date added (the
\* time_reference, when there is one, is taken out by the pass before)
WithDates(args, r) ==
    /\ Has(r.arguments, "start_date")
    /\ Has(r.arguments, "end_date")
    /\ r.arguments["start_date"] = <<2026, 1, 1>>
    /\ PopAll(r.arguments, {"start_date", "end_date"})
         = PopAll(args, {"start_date", "end_date", "time_reference"})

\* the month-range pass with every function in `kept` preserved and every
\* other one replaced
MonthPassKeeps(kept) ==
    \A fn \in CatalogKeys :
        MonthQuestion(fn) =>
            /\ refined.raised = ""
            /\ IF fn \in kept
               THEN refined.function_name = fn
                    /\ WithDates(classification.arguments, refined)
               ELSE refined.function_name = "get_projects_by_date_range"

\* C20: with a month-range phrase in the question, the date pass sets
\* get_projects_by_date_range unless the function is get_largest_by_tags,
\* get_projects_by_multiple_tags or get_projects_by_combined_filters; for
\* those three, and only for those, the function is kept and only
\* start_date / end_date are added.
C20_MonthPassAsStated ==
    MonthPassKeeps({"get_largest_by_tags", "get_projects_by_multiple_tags",
                    "get_projects_by_combined_filters"})

\* the functions that one pass or another leaves as they are, and the
\* category calls that the tag pass turns into one of them
Special ==
    {"get_largest_projects", "get_smallest_projects", "get_largest_by_tags",
     "get_projects_by_tags", "get_projects_by_multiple_tags",
     "get_projects_by_combined_filters", "get_largest_by_category",
     "get_projects_by_category"}

\* which passes the question matches
MatchesMonth(q) == parse_month_range(q) # <<>>

MatchesRelative(q, now) == ~MatchesMonth(q) /\ parse_relative_date(q, now) # <<>>

MatchesQuarter(q) == parse_specific_quarter(q) # <<>>

MatchesYears(q) == parse_multiple_years(q) # <<>>

MatchesYear(q, now) ==
    /\ ~MatchesYears(q)
    /\ ~MatchesMonth(q)
    /\ ~MatchesRelative(q, now)
    /\ parse_specific_year(q) # <<>>
    /\ ~has_rank_word(LowerText(q))

MatchesFee(q) == parse_fee_range(q) # <<>>

Matched(q, now) ==
    {n \in 1..5 : \/ n = 1 /\ (MatchesMonth(q) \/ MatchesRelative(q, now))
                  \/ n = 2 /\ MatchesQuarter(q)
                  \/ n = 3 /\ (MatchesYears(q) \/ MatchesYear(q, now))
                  \/ n = 4 /\ MatchesFee(q)}

\* the functions the last matching pass chooses among
LastChoice(q, now) ==
    IF MatchesFee(q)
    THEN {"get_projects_by_fee_range", "get_projects_by_client_and_fee_range"}
    ELSE IF MatchesYears(q) THEN {"compare_years", "get_projects_by_years"}
    ELSE IF MatchesYear(q, now) THEN {"get_projects_by_year"}
    ELSE IF MatchesQuarter(q) THEN {"get_projects_by_quarter"}
    ELSE IF MatchesMonth(q) THEN {"get_projects_by_date_range"}
    ELSE {"get_projects_by_date_range", "get_largest_projects"}

\* preprocess_query has returned for a question that matches several
\* passes, the classifier's function being none of the special ones
SeveralPasses ==
    /\ pc = "refined"
    /\ classification.function_name[1] \notin Special
    /\ Cardinality(Matched(question, today)) >= 2

EarlierDatesRemain(q, now, r) ==
    /\ MatchesMonth(q) =>
          /\ Has(r.arguments, "start_date") /\ Has(r.arguments, "end_date")
          /\ <<r.arguments["start_date"], r.arguments["end_date"]>> = parse_month_range(q)
    /\ MatchesRelative(q, now) =>
          /\ Has(r.arguments, "start_date") /\ Has(r.arguments, "end_date")
          /\ <<r.arguments["start_date"], r.arguments["end_date"]>>
               = parse_relative_date(q, now)

TimeReferenceReplaced(given, fn, range, r) ==
    /\ ~Has(r.arguments, "time_reference")
    /\ IF range # <<>>
       THEN /\ Has(r.arguments, "start_date") /\ Has(r.arguments, "end_date")
            /\ <<r.arguments["start_date"], r.arguments["end_date"]>> = range
       ELSE /\ r.function_name = fn
            /\ r.arguments = Pop(given, "time_reference")

\* C22: after the time-reference pass the arguments hold no time_reference
\* key, whatever value the classifier gave it: a phrase that resolves is
\* replaced by start_date / end_date, one that does not resolve is removed
\* with the function and every other argument left as they were.  (Checked
\* on the question 'projects', which no later pass matches.)
C22_NoTimeReference ==
    (/\ pc = "refined"
     /\ question = <<"projects">>
     /\ Has(classification.arguments, "time_reference")) =>
        TimeReferenceReplaced(classification.arguments, classification.function_name[1],
                              SemanticTimeParser_parse(
                                  classification.arguments["time_reference"], today),
                              refined)

In2026 == <<"in", "2026">>

\* the single year 2026 handled as stated, `before` being the result for the
\* same question without the year
SingleYearHandled(q, before, r) ==
    /\ r.raised = ""
    /\ IF has_rank_word(LowerText(q))
       THEN /\ r.function_name = before.function_name
            /\ r.arguments = Put(Put(before.arguments, "start_year", 2026), "end_year", 2026)
       ELSE /\ r.function_name = "get_projects_by_year"
            /\ r.arguments = Put(before.arguments, "year", 2026)

\* the single year left aside: the call returns, and no year argument or
\* year function appears that the classifier did not give
SingleYearIgnored(given, r) ==
    /\ r.raised = ""
    /\ r.function_name = "get_projects_by_year" => given.function_name = <<"get_projects_by_year">>
    /\ \A k \in {"year", "start_year", "end_year"} :
           Has(r.arguments, k) => Has(given.arguments, k)

\* C23: with exactly one year in the question and no relative-date or
\* month-range phrase, a ranking question keeps its function and gets
\* start_year = end_year = the year, any other question becomes
\* get_projects_by_year with that year; when a relative-date or month-range
\* phrase fired the year changes neither the function nor the arguments.
C23_SingleYear ==
    /\ \A l \in 1..Len(Leads) :
          (pc = "refined" /\ question = Leads[l] \o In2026) =>
              SingleYearHandled(question,
                                preprocess_query(Leads[l], IntentOf(classification), today),
                                refined)
    /\ (/\ pc = "refined"
        /\ parse_multiple_years(question) = <<>>
        /\ parse_specific_year(question) # <<>>
        /\ \/ parse_month_range(question) # <<>>
           \/ parse_relative_date(question, today) # <<>>) =>
              SingleYearIgnored(classification, refined)

NonNegative(fee) == fee[1] >= 0 /\ fee[2] >= 0

\* the arguments and the function after a fee range `fee_range` was
\* inferred, `before` being the result of the same guess on the lead alone
FeeRangeInferred(q, fee_range, before, r) ==
    /\ Has(r.arguments, "min_fee") /\ Has(r.arguments, "max_fee")
    /\ r.arguments["min_fee"] = fee_range[1]
    /\ NonNegative(r.arguments["min_fee"])
    /\ r.arguments["max_fee"] = IF fee_range[2] = <<>> THEN MaxFeeSentinel
                                ELSE fee_range[2][1]
    /\ r.function_name =
          IF before.function_name \in Protected THEN before.function_name
          ELSE IF Has(before.arguments, "client") \/ HasPhrase(q, <<"TAMU">>)
          THEN "get_projects_by_client_and_fee_range"
          ELSE "get_projects_by_fee_range"

\* C24: whenever a fee range is inferred from the question, the final
\* arguments hold min_fee >= 0 and a max_fee (the sentinel when the phrase
\* has no upper bound, the parsed bound otherwise), and the function is
\* get_projects_by_fee_range, or the client variant when a client argument or
\* client token is present, unless it is one of the three preserved functions.
C24_FeeRange ==
    \A lead \in FeeLeads :
       (/\ pc = "refined"
        /\ SubSeq(question, 1, Len(lead)) = lead
        /\ parse_fee_range(question) # <<>>) =>
            FeeRangeInferred(question, parse_fee_range(question),
                             preprocess_query(lead, IntentOf(classification), today), refined)

Catalogued(given) ==
    given.function_name # <<>> /\ given.function_name[1] \in CatalogKeys

\* C25: when the classifier's function_name is a key of the template
\* catalog, the function_name after preprocess_query, and after
\* preprocess_query applied again to its result, is a key of the catalog
\* too, whatever the question and the arguments.
C25_StaysInCatalog ==
    /\ (pc = "refined" /\ Catalogued(classification)) =>
           refined.function_name \in CatalogKeys
    /\ (pc = "again" /\ Catalogued(classification) /\ again.raised = "") =>
           again.function_name \in CatalogKeys

\* a pass replaced a catalogued function by another one
C25_Witness ==
    /\ pc = "refined"
    /\ Catalogued(classification)
    /\ HasPhrase(question, <<"Q1", "2026">>)
    /\ classification.function_name # <<"get_projects_by_quarter">>
    /\ refined.function_name = "get_projects_by_quarter"

SlotNames ==
    {"{date_filter}", "{limit_clause}", "{tag_conditions}", "{max_fee_filter}",
     "{size_case_statement}", "{size_filter}", "{category_filter}", "{tag_filter}",
     "{status_filter}", "{company_filter}", "{state_filter}", "{fee_filter}",
     "{win_filter}"}

\* C26: for every function of the catalog and every argument mapping, the
\* SQL text returned by build_sql_query holds no template slot {name} that
\* was left unsubstituted.
C26_NoSlotLeft ==
    (pc = "built" /\ refined.function_name \in CatalogKeys /\ built.sql # <<>>) =>
        \A i \in 1..Len(BuiltSql) : BuiltSql[i].text \notin SlotNames

\* the text parameters whose placeholder is compared with '=' or cast with
\* ::date in the template of the function
ExactParams(function_name) ==
    CASE function_name = "get_projects_by_date_range" -> {"start_date", "end_date"}
      [] function_name = "get_projects_by_size"       -> {"size"}
      [] function_name \in {"get_projects_by_state", "get_largest_in_region"}
                                                      -> {"state_code"}
      [] OTHER                                        -> {}

\* C27: wildcard wrapping is applied only to parameters matched with ILIKE:
\* a parameter compared with '=' or cast with ::date (start_date and
\* end_date of get_projects_by_date_range, size of get_projects_by_size,
\* state_code of the state and region calls) is passed unchanged.
C27_ExactUnwrapped ==
    (pc = "built" /\ refined.function_name \in CatalogKeys /\ built.params # <<>>) =>
        \A idx \in 1..Len(BuiltParams) :
            (/\ query_templates(refined.function_name).params[idx]
                    \in ExactParams(refined.function_name)
             /\ Has(refined.arguments,
                    query_templates(refined.function_name).params[idx])) =>
                /\ BuiltParams[idx].kind \notin {"like", "likearray"}
                /\ BuiltParams[idx].v =
                       refined.arguments[query_templates(refined.function_name).params[idx]]

\* the statement restricts its result to n rows: LIMIT n is written in the
\* text, or the LIMIT %s of get_top_predicted_wins is bound to n
Limited(function_name, sql, params, n) ==
    \/ \E i \in 2..Len(sql) :
          sql[i - 1] = Fixed("LIMIT") /\ sql[i] = Interpolated("limit", n)
    \/ function_name = "get_top_predicted_wins" /\ params = <<[kind |-> "int", v |-> n]>>

\* C28: whenever the arguments after preprocess_query hold a positive limit
\* N inferred from the question, the SQL that build_sql_query produces for
\* the selected function, whichever it is, contains LIMIT N.
C28_LimitEnforced ==
    (/\ pc = "done"
     /\ built.sql # <<>>
     /\ parse_limit(question) # <<>>
     /\ parse_limit(question)[1] > 0
     /\ Has(refined.arguments, "limit")
     /\ refined.arguments["limit"] = parse_limit(question)[1]) =>
        Limited(refined.function_name, BuiltSql, BuiltParams, refined.arguments["limit"])

\* the statement restricts Start Date to the range from..to: the bounds are
\* written into the text, or bound to the two ::date placeholders
Ranged(sql, params, from, to) ==
    \/ /\ \E i \in 1..Len(sql) : sql[i] = Interpolated("start_date", from)
       /\ \E i \in 1..Len(sql) : sql[i] = Interpolated("end_date", to)
    \/ /\ \E i \in 1..(Len(sql) - 2) :
             /\ sql[i] = Fixed("AND \"Start Date\" >=")
             /\ sql[i + 1] = Placeholder
             /\ sql[i + 2] = Fixed("::date")
       /\ \E i \in 1..(Len(sql) - 2) :
             /\ sql[i] = Fixed("AND \"Start Date\" <=")
             /\ sql[i + 1] = Placeholder
             /\ sql[i + 2] = Fixed("::date")
       /\ \E i \in 1..(Len(params) - 1) :
             params[i].v = from /\ params[i + 1].v = to

\* C29: whenever the date pass adds start_date / end_date to the arguments
\* while keeping a protected function (get_largest_by_tags,
\* get_projects_by_multiple_tags or get_projects_by_combined_filters), the
\* SQL built for that function restricts Start Date to start_date..end_date.
C29_DateRangeEnforced ==
    (/\ pc = "done"
     /\ built.sql # <<>>
     /\ parse_relative_date(question, today) # <<>>
     /\ parse_month_range(question) = <<>>
     /\ refined.function_name \in Protected
     /\ Has(refined.arguments, "start_date") /\ Has(refined.arguments, "end_date")
     /\ <<refined.arguments["start_date"], refined.arguments["end_date"]>>
            = parse_relative_date(question, today)) =>
        Ranged(BuiltSql, BuiltParams,
               refined.arguments["start_date"], refined.arguments["end_date"])

\* the connections execute_query opened (each is handed to cursor.execute
\* at once) and those it closed
Opened == Count(calls, "cursor.execute")

Closed == Count(calls, "conn.close")

\* C30: every database connection opened by execute_query is closed before
\* the call returns, on the success path and on every failure path (the
\* execute call raising, fetching raising, result conversion raising).
C30_ConnectionsClosed ==
    (pc = "done" /\ Count(calls, "execute_query") = 1) => Closed = Opened

=============================================================================
